---- MODULE Spec2Model ----
(***************************************************************************)
(* State-machine model of the free-claw scheduler subsystem:               *)
(*   src/src/scheduler/service.ts   SchedulerService (engine)              *)
(*   src/unnamed/part_002           computeNextRunAtMs (schedule.ts)       *)
(*   src/unnamed/part_001           loadSchedulerStore / saveSchedulerStore*)
(*   src/src/scheduler/parse-time.ts parseScheduleInput                    *)
(*                                                                         *)
(* The engine runs on one event loop.  Every synchronous segment between   *)
(* two awaits is one atomic action; every await (store I/O, the executor   *)
(* call) is a point where other handlers may run.  Time is the variable    *)
(* now, in milliseconds, as Date.now() returns it.                         *)
(***************************************************************************)
EXTENDS Integers, Sequences, FiniteSets, TLC

VARIABLES
    now,         \* Date.now()
    epoch,       \* instant at which the running process called start()
    crashes,     \* number of unclean process exits so far
    nextId,      \* number of ids handed out by crypto.randomUUID()
    disk,        \* the canonical store file jobs.json
    jobs,        \* this.store.jobs
    timer,       \* this.timer: fire instant of the pending timeout, or None
    running,     \* this.running
    started,     \* this.started
    startPc,     \* position of start(): "init", "persist", "missed", "done"
    missed,      \* runMissedJobs: ids of the missed jobs not yet finished
    tickPc,      \* position of onTimer(): "idle", "persist", "exec"
    dueJobs,     \* onTimer: ids of the due jobs not yet finished
    execs,       \* executeJob calls in flight
    crud,        \* create/remove calls awaiting their persist
    fired,       \* history: schedule-driven executions started, per job id
    bootSeq,     \* history: ids runMissedJobs has entered executeJob for, in order
    interrupted, \* history: ids a tick had marked and persisted, cut by a crash
    consumed,    \* history: one-shot ids whose run reached a terminal result
    errorRuns,   \* history: error results per job id since its last ok result
    backup,      \* the file jobs.json.bak
    tmpFiles,    \* the temporary files, by the saveSchedulerStore call that named them
    saves,       \* saveSchedulerStore calls in flight, step by step
    saveCalls,   \* number of saveSchedulerStore calls made step by step so far
    loaded,      \* what the last loadSchedulerStore call gave, and the file it read
    refused,     \* history: removeJob / forceRunJob calls that returned false
    calc,        \* one call of a pure function: its arguments and what it returned
    queues,      \* queue.ts: the Map queues, chat id to the tracked promise
    tasks,       \* queue.ts: the enqueue calls made, with their promises
    timeouts,    \* service.ts: every timeout the engine has set, with its fate
    handle,      \* service.ts: this.timer, the timeout it refers to (0 for null)
    sessions,    \* sessions.json: chat id to the stored session
    calls        \* manager.ts: sendMessage and newSession calls in flight

vars == <<now, epoch, crashes, nextId, disk, jobs, timer, running, started,
          startPc, missed, tickPc, dueJobs, execs, crud,
          fired, bootSeq, interrupted, consumed, errorRuns,
          backup, tmpFiles, saves, saveCalls, loaded,
          refused, calc, queues, tasks, timeouts, handle, sessions, calls>>

\* The files beside the canonical one and the store calls in progress.
storeVars == <<backup, tmpFiles, saves, saveCalls, loaded>>

\* The engine.
engineVars == <<now, epoch, crashes, nextId, jobs, timer, running, started,
                startPc, missed, tickPc, dueJobs, execs, crud,
                fired, bootSeq, interrupted, consumed, errorRuns, refused>>

\* The pure functions called on their own, and the per-chat queue.
calcVars == <<calc>>
queueVars == <<queues, tasks>>

\* The timeouts of the engine one by one, and the chat sessions.
timerVars == <<timeouts, handle>>
sessionVars == <<sessions, calls>>

(***************************************************************************)
(* Bounds of the model.                                                    *)
(***************************************************************************)
MaxJobs == 1
MaxPairJobs == 2
MaxUp == 60000
MaxPairUp == 60000
MaxCrashes == 1
MaxForce == 1
MaxCrud == 1
MaxErrors == 3
MaxPairErrors == 1
MaxCreateAt == 0
MaxFineK == 3
MaxNeverUp == 6000
MaxCeilUp == 240000
MaxSaveCalls == 2
MaxOverlap == 2
WriteSteps == 2
FiredCap == 2
MaxRefused == 2
MaxCrudJobs == 2

None == -1
NotFinite == -2
JobIds == 1..(MaxJobs + MaxPairJobs)

Max(a, b) == IF a >= b THEN a ELSE b
Min(a, b) == IF a <= b THEN a ELSE b

(***************************************************************************)
(* Program constants (service.ts lines 14-25).                             *)
(***************************************************************************)
MAX_TIMER_DELAY_MS == 60000
MIN_REFIRE_GAP_MS == 2000
STUCK_RUN_TIMEOUT_MS == 7200000
ERROR_BACKOFF_MS == <<30000, 60000, 300000, 900000, 3600000>>

\* Time steps of the environment and downtimes between a crash and restart.
Deltas == {60000}
DownTimes == {30000, STUCK_RUN_TIMEOUT_MS, STUCK_RUN_TIMEOUT_MS + 1}

(***************************************************************************)
(* A faulty ladder lookup: the count is used as the index without the      *)
(* "- 1", so every step of the ladder is taken one error too early.        *)
(***************************************************************************)
errorBackoffMsShifted(consecutiveErrors) ==
    ERROR_BACKOFF_MS[Min(Max(0, consecutiveErrors), Len(ERROR_BACKOFF_MS) - 1) + 1]

(***************************************************************************)
(* A faulty ladder lookup: a count beyond the ladder starts it again.      *)
(***************************************************************************)
errorBackoffMsWrapping(consecutiveErrors) ==
    ERROR_BACKOFF_MS[(Max(0, consecutiveErrors - 1) % Len(ERROR_BACKOFF_MS)) + 1]

(***************************************************************************)
(* errorBackoffMs (service.ts 27-30).                                      *)
(***************************************************************************)
errorBackoffMs(consecutiveErrors) ==
    LET idx == Min(consecutiveErrors - 1, Len(ERROR_BACKOFF_MS) - 1)
    IN  ERROR_BACKOFF_MS[Max(0, idx) + 1]

(***************************************************************************)
(* Schedules.  parseRecurringPattern / parseScheduleInput (parse-time.ts). *)
(* "at" carries the instant its ISO string denotes (millisecond            *)
(* precision), None when the string is no valid date.                      *)
(***************************************************************************)
AtSchedule(at) ==
    [kind |-> "at", at |-> at, everyMs |-> None, anchorMs |-> None, expr |-> ""]
EverySchedule(everyMs, anchorMs) ==
    [kind |-> "every", at |-> None, everyMs |-> everyMs, anchorMs |-> anchorMs,
     expr |-> ""]
CronExprSchedule(expr) ==
    [kind |-> "cron", at |-> None, everyMs |-> None, anchorMs |-> None,
     expr |-> expr]

OnceInputs == {"in 1 minute"}
RecurringInputs == {"every 1 minutes", "every minute"}

parseRecurringPattern(text, t) ==
    IF text = "every 1 minutes" THEN EverySchedule(1 * 60000, t)
    ELSE CronExprSchedule("* * * * *")

parseScheduleInput(input, mode, t) ==
    IF mode = "recurring" THEN parseRecurringPattern(input, t)
    ELSE AtSchedule(t + 60000)

(***************************************************************************)
(* The cron evaluator the calculator delegates to (croner's nextRun): the  *)
(* first matching instant strictly after t.  A five-field expression that  *)
(* matches every minute ("* * * * *") or every hour ("0 * * * *").         *)
(***************************************************************************)
CronPeriod(expr) == IF expr = "0 * * * *" THEN 3600000 ELSE 60000

CronNextRun(expr, t) == ((t \div CronPeriod(expr)) + 1) * CronPeriod(expr)

(***************************************************************************)
(* A faulty calculator: the "every" branch always moves to the boundary    *)
(* strictly after nowMs instead of rounding the elapsed time up.           *)
(***************************************************************************)
computeNextRunAtMsStrictlyAfter(schedule, nowMs) ==
    IF schedule.kind = "at" THEN
        IF schedule.at = None THEN None
        ELSE IF schedule.at > nowMs THEN schedule.at ELSE None
    ELSE IF schedule.kind = "every" THEN
        LET everyMs == Max(1, schedule.everyMs)
            anchor  == Max(0, IF schedule.anchorMs = None THEN nowMs
                              ELSE schedule.anchorMs)
            elapsed == nowMs - anchor
            steps   == (elapsed \div everyMs) + 1
        IN  IF nowMs < anchor THEN anchor ELSE anchor + steps * everyMs
    ELSE
        IF schedule.expr = "" THEN None
        ELSE CronNextRun(schedule.expr, nowMs)

(***************************************************************************)
(* A faulty calculator: the "every" branch rounds the elapsed time down,   *)
(* so between two boundaries it answers the boundary already passed.       *)
(***************************************************************************)
computeNextRunAtMsRoundingDown(nextRun, schedule, nowMs) ==
    IF schedule.kind = "at" THEN
        IF schedule.at = None THEN None
        ELSE IF schedule.at > nowMs THEN schedule.at ELSE None
    ELSE IF schedule.kind = "every" THEN
        LET everyMs == Max(1, schedule.everyMs)
            anchor  == Max(0, IF schedule.anchorMs = None THEN nowMs
                              ELSE schedule.anchorMs)
            elapsed == nowMs - anchor
            steps   == Max(1, elapsed \div everyMs)
        IN  IF nowMs < anchor THEN anchor ELSE anchor + steps * everyMs
    ELSE
        IF schedule.expr = "" THEN None
        ELSE LET nextMs == nextRun[nowMs]
                 nextSecondMs == (nowMs \div 1000) * 1000 + 1000
                 retryMs == nextRun[nextSecondMs]
             IN  IF nextMs = None \/ nextMs = NotFinite THEN None
                 ELSE IF nextMs > nowMs THEN nextMs
                 ELSE IF retryMs = None \/ retryMs = NotFinite THEN None
                 ELSE IF retryMs > nowMs THEN retryMs ELSE None

(***************************************************************************)
(* A faulty calculator: the cron branch hands back the retried answer      *)
(* without comparing it with nowMs.                                        *)
(***************************************************************************)
computeNextRunAtMsTrustingRetry(nextRun, schedule, nowMs) ==
    IF schedule.kind = "at" THEN
        IF schedule.at = None THEN None
        ELSE IF schedule.at > nowMs THEN schedule.at ELSE None
    ELSE IF schedule.kind = "every" THEN
        LET everyMs == Max(1, schedule.everyMs)
            anchor  == Max(0, IF schedule.anchorMs = None THEN nowMs
                              ELSE schedule.anchorMs)
            elapsed == nowMs - anchor
            steps   == Max(1, (elapsed + everyMs - 1) \div everyMs)
        IN  IF nowMs < anchor THEN anchor ELSE anchor + steps * everyMs
    ELSE
        IF schedule.expr = "" THEN None
        ELSE LET nextMs == nextRun[nowMs]
                 nextSecondMs == (nowMs \div 1000) * 1000 + 1000
                 retryMs == nextRun[nextSecondMs]
             IN  IF nextMs = None \/ nextMs = NotFinite THEN None
                 ELSE IF nextMs > nowMs THEN nextMs
                 ELSE IF retryMs = None \/ retryMs = NotFinite THEN None
                 ELSE retryMs

(***************************************************************************)
(* computeNextRunAtMs (part_002 172-212), with the cron evaluator it       *)
(* builds (new Cron(expr, ...), 192-195) as nextRun: nextRun[t] is what    *)
(* cron.nextRun(new Date(t)) gives, None for null and NotFinite for a Date *)
(* whose getTime() is no finite number.                                    *)
(***************************************************************************)
computeNextRunAtMsWith(nextRun, schedule, nowMs) ==
    IF schedule.kind = "at" THEN
        IF schedule.at = None THEN None
        ELSE IF schedule.at > nowMs THEN schedule.at ELSE None
    ELSE IF schedule.kind = "every" THEN
        LET everyMs == Max(1, schedule.everyMs)
            anchor  == Max(0, IF schedule.anchorMs = None THEN nowMs
                              ELSE schedule.anchorMs)
            elapsed == nowMs - anchor
            steps   == Max(1, (elapsed + everyMs - 1) \div everyMs)
        IN  IF nowMs < anchor THEN anchor ELSE anchor + steps * everyMs
    ELSE
        IF schedule.expr = "" THEN None
        ELSE LET nextMs == nextRun[nowMs]
                 nextSecondMs == (nowMs \div 1000) * 1000 + 1000
                 retryMs == nextRun[nextSecondMs]
             IN  IF nextMs = None \/ nextMs = NotFinite THEN None
                 ELSE IF nextMs > nowMs THEN nextMs
                 ELSE IF retryMs = None \/ retryMs = NotFinite THEN None
                 ELSE IF retryMs > nowMs THEN retryMs ELSE None

\* The evaluator of the engine's schedules: croner on a five-field expression.
Cron(expr) == [t \in Nat |-> CronNextRun(expr, t)]

computeNextRunAtMs(schedule, nowMs) ==
    computeNextRunAtMsWith(Cron(schedule.expr), schedule, nowMs)

(***************************************************************************)
(* The chats commands come from, and the one that owns the jobs where the  *)
(* owner plays no part.  Uuid(k) is the k-th value crypto.randomUUID()     *)
(* gives (service.ts 100), as its sequence of digits: the values are       *)
(* distinct, and the first two begin with the same digit.  A job's id      *)
(* field holds k.                                                          *)
(***************************************************************************)
Chats == {7, 8}
OwnerChat == CHOOSE chatId \in Chats : \A other \in Chats : chatId <= other
Uuid(k) == <<(k + 1) \div 2, k>>

(***************************************************************************)
(* Job records (types.ts).  Absent optional fields are None / "none".      *)
(***************************************************************************)
NewJob(chatId, id, schedule, mode, t) ==
    [id |-> id, chatId |-> chatId, schedule |-> schedule, enabled |-> TRUE,
     deleteAfterRun |-> (mode = "once"),
     nextRunAtMs |-> computeNextRunAtMs(schedule, t),
     runningAtMs |-> None, lastRunAtMs |-> None, lastStatus |-> "none",
     lastError |-> "none", lastDurationMs |-> None, consecutiveErrors |-> None]

Ids(js) == {js[i].id : i \in 1..Len(js)}
HasJob(js, id) == id \in Ids(js)
JobOf(js, id) == js[CHOOSE i \in 1..Len(js) : js[i].id = id]
SetJob(js, id, j) == [i \in 1..Len(js) |-> IF js[i].id = id THEN j ELSE js[i]]
RemoveAt(s, i) == SubSeq(s, 1, i - 1) \o SubSeq(s, i + 1, Len(s))
RECURSIVE IdsWhere(_, _)
IdsWhere(js, keep) ==
    IF js = <<>> THEN <<>>
    ELSE (IF Head(js).id \in keep THEN <<Head(js).id>> ELSE <<>>)
         \o IdsWhere(Tail(js), keep)

(***************************************************************************)
(* The store file (part_001).  A file is absent, unreadable, or holds a    *)
(* text.  A text is the sequence of lines JSON.stringify(store, null, 2)   *)
(* prints, each line with its nesting depth d, the member key k it begins  *)
(* with ("" for an array element and for a closing line), what it holds t  *)
(* ("{", "}", "[", "]", "{}", "[]", "string", "number", "true", "false",   *)
(* "null") and the value of a string s or of a number n.                   *)
(***************************************************************************)
NoFile == [exists |-> FALSE, readable |-> TRUE, text |-> <<>>]
TextFile(text) == [exists |-> TRUE, readable |-> TRUE, text |-> text]
UnreadableFile == [exists |-> TRUE, readable |-> FALSE, text |-> <<>>]

Ln(d, k, t, s, n) == [d |-> d, k |-> k, t |-> t, s |-> s, n |-> n]
StrLn(d, k, s) == Ln(d, k, "string", s, None)
NumLn(d, k, n) == Ln(d, k, "number", "", n)
BoolLn(d, k, b) == Ln(d, k, IF b THEN "true" ELSE "false", "", None)
NullLn(d, k) == Ln(d, k, "null", "", None)

\* A member whose value is undefined is left out by JSON.stringify.
OptNumLn(d, k, n) == IF n = None THEN <<>> ELSE <<NumLn(d, k, n)>>
OptStrLn(d, k, s) == IF s = "none" THEN <<>> ELSE <<StrLn(d, k, s)>>

ObjectLns(d, k, members) ==
    IF members = <<>> THEN <<Ln(d, k, "{}", "", None)>>
    ELSE <<Ln(d, k, "{", "", None)>> \o members \o <<Ln(d, "", "}", "", None)>>

ArrayLns(d, k, elements) ==
    IF elements = <<>> THEN <<Ln(d, k, "[]", "", None)>>
    ELSE <<Ln(d, k, "[", "", None)>> \o elements \o <<Ln(d, "", "]", "", None)>>

(***************************************************************************)
(* The store in memory (types.ts 30-35): timezones is optional; its        *)
(* entries are the pairs of a chat id (as a key) and a timezone name.      *)
(***************************************************************************)
NoTimezones == [defined |-> FALSE, entries |-> <<>>]
Timezones(entries) == [defined |-> TRUE, entries |-> entries]
StoreFile(js, timezones) == [version |-> 1, jobs |-> js, timezones |-> timezones]
DefaultStore == StoreFile(<<>>, Timezones(<<>>))

\* this.store of the engine, whose jobs are the variable jobs
\* (service.ts 33, 47).
StoreOf(js) == StoreFile(js, Timezones(<<>>))

(***************************************************************************)
(* JSON.stringify(store, null, 2) (part_001 37), on the members of a job   *)
(* the model keeps (types.ts 1-28).                                        *)
(***************************************************************************)
scheduleLns(schedule) ==
    <<StrLn(4, "kind", schedule.kind)>>
    \o (IF schedule.kind = "at" THEN <<NumLn(4, "at", schedule.at)>>
        ELSE IF schedule.kind = "every"
        THEN <<NumLn(4, "everyMs", schedule.everyMs)>>
             \o OptNumLn(4, "anchorMs", schedule.anchorMs)
        ELSE <<StrLn(4, "expr", schedule.expr)>>)

(***************************************************************************)
(* A faulty serialisation: nextRunAtMs is not written.                     *)
(***************************************************************************)
stateLnsWithoutNextRun(job) ==
    OptNumLn(4, "runningAtMs", job.runningAtMs)
    \o OptNumLn(4, "lastRunAtMs", job.lastRunAtMs)
    \o OptStrLn(4, "lastStatus", job.lastStatus)
    \o OptStrLn(4, "lastError", job.lastError)
    \o OptNumLn(4, "lastDurationMs", job.lastDurationMs)
    \o OptNumLn(4, "consecutiveErrors", job.consecutiveErrors)

stateLns(job) ==
    OptNumLn(4, "nextRunAtMs", job.nextRunAtMs)
    \o OptNumLn(4, "runningAtMs", job.runningAtMs)
    \o OptNumLn(4, "lastRunAtMs", job.lastRunAtMs)
    \o OptStrLn(4, "lastStatus", job.lastStatus)
    \o OptStrLn(4, "lastError", job.lastError)
    \o OptNumLn(4, "lastDurationMs", job.lastDurationMs)
    \o OptNumLn(4, "consecutiveErrors", job.consecutiveErrors)

jobLns(job) ==
    ObjectLns(2, "",
        <<NumLn(3, "id", job.id), NumLn(3, "chatId", job.chatId)>>
        \o ObjectLns(3, "schedule", scheduleLns(job.schedule))
        \o <<BoolLn(3, "enabled", job.enabled),
             BoolLn(3, "deleteAfterRun", job.deleteAfterRun)>>
        \o ObjectLns(3, "state", stateLns(job)))

RECURSIVE jobsLns(_)
jobsLns(js) ==
    IF js = <<>> THEN <<>> ELSE jobLns(Head(js)) \o jobsLns(Tail(js))

timezoneLns(entries) ==
    [i \in 1..Len(entries) |-> StrLn(2, entries[i].chat, entries[i].tz)]

JSONstringify(store) ==
    ObjectLns(0, "",
        <<NumLn(1, "version", store.version)>>
        \o ArrayLns(1, "jobs", jobsLns(store.jobs))
        \o (IF store.timezones.defined
            THEN ObjectLns(1, "timezones", timezoneLns(store.timezones.entries))
            ELSE <<>>))

(***************************************************************************)
(* JSON.parse (part_001 14).  A text is accepted when it is one value:     *)
(* every line sits at the depth its enclosing brackets give it and the     *)
(* brackets are closed at the end; a truncated text is a SyntaxError.      *)
(***************************************************************************)
Opens(l) == l.t \in {"{", "["}
Closes(l) == l.t \in {"}", "]"}

RECURSIVE WellNested(_, _, _)
WellNested(text, i, depth) ==
    IF i > Len(text) THEN depth = 0
    ELSE IF i > 1 /\ depth = 0 THEN FALSE
    ELSE IF Opens(text[i])
         THEN text[i].d = depth /\ WellNested(text, i + 1, depth + 1)
    ELSE IF Closes(text[i])
         THEN depth > 0 /\ text[i].d = depth - 1
              /\ WellNested(text, i + 1, depth - 1)
    ELSE text[i].d = depth /\ WellNested(text, i + 1, depth)

JSONvalid(text) == text # <<>> /\ WellNested(text, 1, 0)

\* The lines of the value that begins at line i of a valid text.
ValueEnd(text, i) ==
    IF ~Opens(text[i]) THEN i
    ELSE CHOOSE j \in (i + 1)..Len(text) :
            /\ Closes(text[j]) /\ text[j].d = text[i].d
            /\ \A m \in (i + 1)..(j - 1) :
                  ~(Closes(text[m]) /\ text[m].d = text[i].d)

Body(text, i) ==
    IF Opens(text[i]) THEN SubSeq(text, i + 1, ValueEnd(text, i) - 1) ELSE <<>>

\* parsed[k]: the line of the top-level member k, 0 when there is none.
MemberAt(text, k) ==
    IF \E i \in 1..Len(text) : text[i].d = 1 /\ text[i].k = k
    THEN CHOOSE i \in 1..Len(text) : text[i].d = 1 /\ text[i].k = k
    ELSE 0

\* The elements of an array body, each with its lines.
RECURSIVE Elements(_)
Elements(lns) ==
    IF lns = <<>> THEN <<>>
    ELSE <<SubSeq(lns, 1, ValueEnd(lns, 1))>>
         \o Elements(SubSeq(lns, ValueEnd(lns, 1) + 1, Len(lns)))

\* Boolean(element), the test of filter(Boolean) (part_001 18).
Truthy(element) ==
    LET l == element[1]
    IN  /\ l.t \notin {"null", "false"}
        /\ ~(l.t = "number" /\ l.n = 0)
        /\ ~(l.t = "string" /\ l.s = "")

\* The line of the member k among the lines of an object, 0 when there
\* is none.
FieldAt(lns, k) ==
    LET at == {i \in 1..Len(lns) : lns[i].k = k}
    IN  IF at = {} THEN 0 ELSE CHOOSE i \in at : TRUE
NumField(lns, k) ==
    LET i == FieldAt(lns, k)
    IN  IF i # 0 /\ lns[i].t = "number" THEN lns[i].n ELSE None
StrField(lns, k, absent) ==
    LET i == FieldAt(lns, k)
    IN  IF i # 0 /\ lns[i].t = "string" THEN lns[i].s ELSE absent
BoolField(lns, k) ==
    LET i == FieldAt(lns, k)
    IN  i # 0 /\ lns[i].t = "true"

\* The job object an element is read as: a member that is not in the text
\* is undefined.
parsedJob(lns) ==
    [id |-> NumField(lns, "id"),
     chatId |-> NumField(lns, "chatId"),
     schedule |-> [kind |-> StrField(lns, "kind", ""),
                   at |-> NumField(lns, "at"),
                   everyMs |-> NumField(lns, "everyMs"),
                   anchorMs |-> NumField(lns, "anchorMs"),
                   expr |-> StrField(lns, "expr", "")],
     enabled |-> BoolField(lns, "enabled"),
     deleteAfterRun |-> BoolField(lns, "deleteAfterRun"),
     nextRunAtMs |-> NumField(lns, "nextRunAtMs"),
     runningAtMs |-> NumField(lns, "runningAtMs"),
     lastRunAtMs |-> NumField(lns, "lastRunAtMs"),
     lastStatus |-> StrField(lns, "lastStatus", "none"),
     lastError |-> StrField(lns, "lastError", "none"),
     lastDurationMs |-> NumField(lns, "lastDurationMs"),
     consecutiveErrors |-> NumField(lns, "consecutiveErrors")]

parsedJobs(text) ==
    LET i == MemberAt(text, "jobs")
        kept == SelectSeq(Elements(Body(text, i)), Truthy)
    IN  IF i = 0 THEN <<>>
        ELSE IF text[i].t # "[" THEN <<>>
        ELSE [n \in 1..Len(kept) |-> parsedJob(kept[n])]

parsedTimezones(text) ==
    LET i == MemberAt(text, "timezones")
        lns == Body(text, i)
    IN  IF i = 0 THEN Timezones(<<>>)
        ELSE IF text[i].t # "{" THEN Timezones(<<>>)
        ELSE Timezones([n \in 1..Len(lns) |->
                           [chat |-> lns[n].k, tz |-> lns[n].s]])

(***************************************************************************)
(* loadSchedulerStore (part_001 11-29): what the call returns or throws.   *)
(***************************************************************************)
Returns(store) == [threw |-> "", store |-> store]
Throws(err) == [threw |-> err, store |-> DefaultStore]

(***************************************************************************)
(* A faulty load: every failure is taken for a missing file.               *)
(***************************************************************************)
loadSchedulerStoreForgiving(file) ==
    IF ~file.exists \/ ~file.readable \/ ~JSONvalid(file.text)
    THEN Returns(DefaultStore)
    ELSE IF file.text[1].t \in {"{", "{}", "[", "[]"}
    THEN Returns([version |-> 1,
                  jobs |-> parsedJobs(file.text),
                  timezones |-> parsedTimezones(file.text)])
    ELSE Returns(DefaultStore)

loadSchedulerStore(file) ==
    IF ~file.exists THEN Returns(DefaultStore)
    ELSE IF ~file.readable THEN Throws("EACCES")
    ELSE IF ~JSONvalid(file.text) THEN Throws("SyntaxError")
    ELSE IF file.text[1].t \in {"{", "{}", "[", "[]"}
    THEN Returns([version |-> 1,
                  jobs |-> parsedJobs(file.text),
                  timezones |-> parsedTimezones(file.text)])
    ELSE Returns(DefaultStore)

(***************************************************************************)
(* saveSchedulerStore (part_001 34-45), as the canonical file is left by a *)
(* call that has returned.                                                 *)
(***************************************************************************)
saveSchedulerStore(store) == TextFile(JSONstringify(store))

\* The jobs a load() of the canonical file returns.
storedJobs == loadSchedulerStore(disk).store.jobs

\* No store call in progress and no file beside the canonical one.
SaveIds == 1..MaxSaveCalls
NotLoaded == [called |-> FALSE, result |-> Returns(DefaultStore), file |-> NoFile]

StoreIdle ==
    /\ backup = NoFile
    /\ tmpFiles = [id \in SaveIds |-> NoFile]
    /\ saves = <<>>
    /\ saveCalls = 0
    /\ loaded = NotLoaded

\* No call of a pure function made on its own.
CalcNone ==
    [pc |-> "idle", fn |-> "", schedule |-> AtSchedule(None), nowMs |-> 0,
     first |-> None, retry |-> None, count |-> 0, result |-> None]
CalcIdle == calc = CalcNone

\* The per-chat queue (queue.ts 9) with no enqueue call made.
QueueIdle ==
    /\ queues = [chatId \in Chats |-> 0]
    /\ tasks = <<>>

\* No timeout set one by one, and no stored session and no call.
TimersIdle ==
    /\ timeouts = <<>>
    /\ handle = 0

NoSession == [sessionId |-> 0, status |-> "none", messageCount |-> 0]
SessionsIdle ==
    /\ sessions = [chatId \in Chats |-> NoSession]
    /\ calls = <<>>

(***************************************************************************)
(* A faulty result application: the minimum refire gap of Cron jobs is     *)
(* left out.                                                               *)
(***************************************************************************)
applyJobResultNoGap(job, status, error, startedAt, endedAt) ==
    LET cerr == IF status = "error"
                THEN (IF job.consecutiveErrors = None THEN 0
                      ELSE job.consecutiveErrors) + 1
                ELSE 0
        j1 == [job EXCEPT !.runningAtMs = None,
                          !.lastRunAtMs = startedAt,
                          !.lastStatus = status,
                          !.lastDurationMs = Max(0, endedAt - startedAt),
                          !.lastError = error,
                          !.consecutiveErrors = cerr]
        naturalNext == computeNextRunAtMs(job.schedule, endedAt)
    IN  IF job.schedule.kind = "at" THEN
            [j1 EXCEPT !.enabled = FALSE, !.nextRunAtMs = None]
        ELSE IF status = "error" /\ job.enabled THEN
            LET backoffNext == endedAt + errorBackoffMs(cerr)
            IN  [j1 EXCEPT !.nextRunAtMs =
                    IF naturalNext # None THEN Max(naturalNext, backoffNext)
                    ELSE backoffNext]
        ELSE IF job.enabled THEN [j1 EXCEPT !.nextRunAtMs = naturalNext]
        ELSE [j1 EXCEPT !.nextRunAtMs = None]

\* A faulty counter: an ok result leaves the count as it was.
consecutiveErrorsNoReset(job, status) ==
    IF status = "error"
    THEN (IF job.consecutiveErrors = None THEN 0 ELSE job.consecutiveErrors) + 1
    ELSE IF job.consecutiveErrors = None THEN 0 ELSE job.consecutiveErrors

\* applyJobResult's update of consecutiveErrors (service.ts 301-305).
consecutiveErrorsAfter(job, status) ==
    IF status = "error"
    THEN (IF job.consecutiveErrors = None THEN 0 ELSE job.consecutiveErrors) + 1
    ELSE 0

(***************************************************************************)
(* A faulty result application: a recurring job is switched off at its     *)
(* third consecutive error.                                                *)
(***************************************************************************)
applyJobResultGivingUp(job, status, error, startedAt, endedAt) ==
    LET cerr == consecutiveErrorsAfter(job, status)
        j1 == [job EXCEPT !.runningAtMs = None,
                          !.lastRunAtMs = startedAt,
                          !.lastStatus = status,
                          !.lastDurationMs = Max(0, endedAt - startedAt),
                          !.lastError = error,
                          !.consecutiveErrors = cerr]
        naturalNext == computeNextRunAtMs(job.schedule, endedAt)
    IN  IF job.schedule.kind = "at" \/ cerr >= 3 THEN
            [j1 EXCEPT !.enabled = FALSE, !.nextRunAtMs = None]
        ELSE IF status = "error" /\ job.enabled THEN
            LET backoffNext == endedAt + errorBackoffMs(cerr)
            IN  [j1 EXCEPT !.nextRunAtMs =
                    IF naturalNext # None THEN Max(naturalNext, backoffNext)
                    ELSE backoffNext]
        ELSE IF job.enabled THEN
            IF job.schedule.kind = "cron" THEN
                LET minNext == endedAt + MIN_REFIRE_GAP_MS
                IN  [j1 EXCEPT !.nextRunAtMs =
                        IF naturalNext # None THEN Max(naturalNext, minNext)
                        ELSE minNext]
            ELSE [j1 EXCEPT !.nextRunAtMs = naturalNext]
        ELSE [j1 EXCEPT !.nextRunAtMs = None]

(***************************************************************************)
(* A faulty result application: a one-shot job is disabled but keeps its   *)
(* nextRunAtMs.                                                            *)
(***************************************************************************)
applyJobResultKeepingNext(job, status, error, startedAt, endedAt) ==
    LET cerr == consecutiveErrorsAfter(job, status)
        j1 == [job EXCEPT !.runningAtMs = None,
                          !.lastRunAtMs = startedAt,
                          !.lastStatus = status,
                          !.lastDurationMs = Max(0, endedAt - startedAt),
                          !.lastError = error,
                          !.consecutiveErrors = cerr]
        naturalNext == computeNextRunAtMs(job.schedule, endedAt)
    IN  IF job.schedule.kind = "at" THEN
            [j1 EXCEPT !.enabled = FALSE]
        ELSE IF status = "error" /\ job.enabled THEN
            LET backoffNext == endedAt + errorBackoffMs(cerr)
            IN  [j1 EXCEPT !.nextRunAtMs =
                    IF naturalNext # None THEN Max(naturalNext, backoffNext)
                    ELSE backoffNext]
        ELSE IF job.enabled THEN
            IF job.schedule.kind = "cron" THEN
                LET minNext == endedAt + MIN_REFIRE_GAP_MS
                IN  [j1 EXCEPT !.nextRunAtMs =
                        IF naturalNext # None THEN Max(naturalNext, minNext)
                        ELSE minNext]
            ELSE [j1 EXCEPT !.nextRunAtMs = naturalNext]
        ELSE [j1 EXCEPT !.nextRunAtMs = None]

(***************************************************************************)
(* A faulty result application: an Every job that ran ok is rescheduled    *)
(* one interval after the start of the run.                                *)
(***************************************************************************)
applyJobResultDrifting(job, status, error, startedAt, endedAt) ==
    LET cerr == consecutiveErrorsAfter(job, status)
        j1 == [job EXCEPT !.runningAtMs = None,
                          !.lastRunAtMs = startedAt,
                          !.lastStatus = status,
                          !.lastDurationMs = Max(0, endedAt - startedAt),
                          !.lastError = error,
                          !.consecutiveErrors = cerr]
        naturalNext == computeNextRunAtMs(job.schedule, endedAt)
    IN  IF job.schedule.kind = "at" THEN
            [j1 EXCEPT !.enabled = FALSE, !.nextRunAtMs = None]
        ELSE IF status = "error" /\ job.enabled THEN
            LET backoffNext == endedAt + errorBackoffMs(cerr)
            IN  [j1 EXCEPT !.nextRunAtMs =
                    IF naturalNext # None THEN Max(naturalNext, backoffNext)
                    ELSE backoffNext]
        ELSE IF job.enabled THEN
            IF job.schedule.kind = "cron" THEN
                LET minNext == endedAt + MIN_REFIRE_GAP_MS
                IN  [j1 EXCEPT !.nextRunAtMs =
                        IF naturalNext # None THEN Max(naturalNext, minNext)
                        ELSE minNext]
            ELSE [j1 EXCEPT !.nextRunAtMs = startedAt + job.schedule.everyMs]
        ELSE [j1 EXCEPT !.nextRunAtMs = None]

(***************************************************************************)
(* applyJobResult (service.ts 291-333).                                    *)
(***************************************************************************)
applyJobResult(job, status, error, startedAt, endedAt) ==
    LET cerr == consecutiveErrorsAfter(job, status)
        j1 == [job EXCEPT !.runningAtMs = None,
                          !.lastRunAtMs = startedAt,
                          !.lastStatus = status,
                          !.lastDurationMs = Max(0, endedAt - startedAt),
                          !.lastError = error,
                          !.consecutiveErrors = cerr]
        naturalNext == computeNextRunAtMs(job.schedule, endedAt)
    IN  IF job.schedule.kind = "at" THEN
            [j1 EXCEPT !.enabled = FALSE, !.nextRunAtMs = None]
        ELSE IF status = "error" /\ job.enabled THEN
            LET backoffNext == endedAt + errorBackoffMs(cerr)
            IN  [j1 EXCEPT !.nextRunAtMs =
                    IF naturalNext # None THEN Max(naturalNext, backoffNext)
                    ELSE backoffNext]
        ELSE IF job.enabled THEN
            IF job.schedule.kind = "cron" THEN
                LET minNext == endedAt + MIN_REFIRE_GAP_MS
                IN  [j1 EXCEPT !.nextRunAtMs =
                        IF naturalNext # None THEN Max(naturalNext, minNext)
                        ELSE minNext]
            ELSE [j1 EXCEPT !.nextRunAtMs = naturalNext]
        ELSE [j1 EXCEPT !.nextRunAtMs = None]

(***************************************************************************)
(* A faulty delete rule: the status of the run is not looked at.           *)
(***************************************************************************)
shouldDeleteAnyStatus(job, status) ==
    job.schedule.kind = "at" /\ job.deleteAfterRun

(***************************************************************************)
(* executeJob's delete rule for one-shot jobs (service.ts 280-281).        *)
(***************************************************************************)
shouldDelete(job, status) ==
    job.schedule.kind = "at" /\ job.deleteAfterRun /\ status = "ok"

(***************************************************************************)
(* nextWakeAtMs / armTimer (service.ts 178-210): the new value of          *)
(* this.timer.                                                             *)
(***************************************************************************)
nextWakeAtMs(js) ==
    LET cand == {js[i].nextRunAtMs : i \in {k \in 1..Len(js) :
                     js[k].enabled /\ js[k].nextRunAtMs # None}}
    IN  IF cand = {} THEN None
        ELSE CHOOSE m \in cand : \A c \in cand : m <= c

\* A faulty arming: the delay has no floor at zero.
armTimerNoFloor(js, isStarted, t) ==
    IF ~isStarted THEN None
    ELSE IF nextWakeAtMs(js) = None THEN None
    ELSE t + Min(nextWakeAtMs(js) - t, MAX_TIMER_DELAY_MS)

armTimer(js, isStarted, t) ==
    IF ~isStarted THEN None
    ELSE IF nextWakeAtMs(js) = None THEN None
    ELSE t + Min(Max(nextWakeAtMs(js) - t, 0), MAX_TIMER_DELAY_MS)

(***************************************************************************)
(* findDueJobs (service.ts 250-257) and the filter of runMissedJobs        *)
(* (service.ts 337-344): the ids of the selected jobs, in collection order.*)
(***************************************************************************)
isDue(job, nowMs) ==
    /\ job.enabled
    /\ job.runningAtMs = None
    /\ job.nextRunAtMs # None
    /\ nowMs >= job.nextRunAtMs

\* A faulty selection: the due jobs in the reverse of the collection order.
RECURSIVE Reversed(_)
Reversed(seq) == IF seq = <<>> THEN <<>> ELSE Append(Reversed(Tail(seq)), Head(seq))

findDueJobsNewestFirst(js, nowMs) ==
    Reversed(IdsWhere(js, {js[i].id : i \in {k \in 1..Len(js) : isDue(js[k], nowMs)}}))

findDueJobs(js, nowMs) ==
    IdsWhere(js, {js[i].id : i \in {k \in 1..Len(js) : isDue(js[k], nowMs)}})

\* A faulty recovery filter: the running marker is not looked at.
isMissedIgnoringMarker(job, nowMs) ==
    /\ job.enabled
    /\ ~(job.schedule.kind = "at" /\ job.lastStatus # "none")
    /\ job.nextRunAtMs # None
    /\ nowMs >= job.nextRunAtMs

isMissed(job, nowMs) ==
    /\ job.enabled
    /\ job.runningAtMs = None
    /\ ~(job.schedule.kind = "at" /\ job.lastStatus # "none")
    /\ job.nextRunAtMs # None
    /\ nowMs >= job.nextRunAtMs

missedJobs(js, nowMs) ==
    IdsWhere(js, {js[i].id : i \in {k \in 1..Len(js) : isMissed(js[k], nowMs)}})

(***************************************************************************)
(* start(), first segment (service.ts 50-66): stale-run clearing and the   *)
(* recomputation of missing next-run instants.                             *)
(***************************************************************************)
\* A faulty stale-run test: a marker exactly as old as the threshold is cleared.
clearStaleInclusive(js, t) ==
    [i \in 1..Len(js) |->
        IF js[i].runningAtMs # None /\ t - js[i].runningAtMs >= STUCK_RUN_TIMEOUT_MS
        THEN [js[i] EXCEPT !.runningAtMs = None]
        ELSE js[i]]

clearStale(js, t) ==
    [i \in 1..Len(js) |->
        IF js[i].runningAtMs # None /\ t - js[i].runningAtMs > STUCK_RUN_TIMEOUT_MS
        THEN [js[i] EXCEPT !.runningAtMs = None]
        ELSE js[i]]

recomputeNext(js, t) ==
    [i \in 1..Len(js) |->
        IF js[i].enabled /\ js[i].nextRunAtMs = None
        THEN [js[i] EXCEPT !.nextRunAtMs = computeNextRunAtMs(js[i].schedule, t)]
        ELSE js[i]]

(***************************************************************************)
(* executeJob, first segment (service.ts 260-262): the marker is written   *)
(* on the job object; an object no longer in the collection is unseen.     *)
(***************************************************************************)
markRunning(js, id, t) ==
    IF HasJob(js, id)
    THEN SetJob(js, id, [JobOf(js, id) EXCEPT !.runningAtMs = t,
                                              !.lastError = "none"])
    ELSE js

NewExec(origin, id, t) ==
    [origin |-> origin, job |-> id, startedAt |-> t, phase |-> "run",
     status |-> "none"]

Bump(f, id) == [f EXCEPT ![id] = Min(@ + 1, FiredCap)]

Init ==
    /\ now = 0
    /\ epoch = 0
    /\ crashes = 0
    /\ nextId = 0
    /\ disk = NoFile
    /\ jobs = <<>>
    /\ timer = None
    /\ running = FALSE
    /\ started = FALSE
    /\ startPc = "init"
    /\ missed = <<>>
    /\ tickPc = "idle"
    /\ dueJobs = <<>>
    /\ execs = <<>>
    /\ crud = 0
    /\ fired = [i \in JobIds |-> 0]
    /\ bootSeq = <<>>
    /\ interrupted = {}
    /\ consumed = {}
    /\ errorRuns = [i \in JobIds |-> 0]
    /\ StoreIdle
    /\ refused = 0
    /\ CalcIdle
    /\ QueueIdle
    /\ TimersIdle
    /\ SessionsIdle

(***************************************************************************)
(* start(), up to its first persist (service.ts 46-68).  The process has   *)
(* been down for d ms when it is a restart after a crash.                  *)
(***************************************************************************)
start(d) ==
    /\ startPc = "init"
    /\ now' = now + d
    /\ epoch' = now + d
    /\ loadSchedulerStore(disk).threw = ""
    /\ jobs' = recomputeNext(clearStale(loadSchedulerStore(disk).store.jobs,
                                        now + d), now + d)
    /\ started' = TRUE
    /\ startPc' = "persist"
    /\ bootSeq' = <<>>
    /\ UNCHANGED <<crashes, nextId, disk, timer, running, missed, tickPc,
                   dueJobs, execs, crud, fired, interrupted, consumed,
                   errorRuns, refused, storeVars, calcVars,
                   queueVars, timerVars, sessionVars>>

(***************************************************************************)
(* start() after its persist: runMissedJobs (service.ts 335-352) selects   *)
(* the missed jobs and enters executeJob for the first; with none missed   *)
(* start() arms the timer and returns (service.ts 73).                     *)
(***************************************************************************)
runMissedJobs ==
    /\ startPc = "persist"
    /\ disk' = saveSchedulerStore(StoreOf(jobs))
    /\ LET m == missedJobs(jobs, now)
       IN  IF m = <<>>
           THEN /\ timer' = armTimer(jobs, started, now)
                /\ startPc' = "done"
                /\ UNCHANGED <<jobs, missed, execs, fired, bootSeq>>
           ELSE /\ missed' = m
                /\ jobs' = markRunning(jobs, Head(m), now)
                /\ execs' = Append(execs, NewExec("start", Head(m), now))
                /\ fired' = Bump(fired, Head(m))
                /\ bootSeq' = Append(bootSeq, Head(m))
                /\ startPc' = "missed"
                /\ UNCHANGED timer
    /\ UNCHANGED <<now, epoch, crashes, nextId, running, started, tickPc,
                   dueJobs, crud, interrupted, consumed,
                   errorRuns, refused, storeVars, calcVars,
                   queueVars, timerVars, sessionVars>>

(***************************************************************************)
(* createFromNaturalLanguage, up to its persist (service.ts 92-118).       *)
(* Commands reach the engine only after start() has returned (index.ts).   *)
(***************************************************************************)
createFromNaturalLanguage(chatId, input, mode) ==
    /\ startPc = "done"
    /\ nextId' = nextId + 1
    /\ jobs' = Append(jobs, NewJob(chatId, nextId + 1,
                                   parseScheduleInput(input, mode, now), mode, now))
    /\ crud' = crud + 1
    /\ UNCHANGED <<now, epoch, crashes, disk, timer, running, started, startPc,
                   missed, tickPc, dueJobs, execs, fired, bootSeq,
                   interrupted, consumed,
                   errorRuns, refused, storeVars, calcVars,
                   queueVars, timerVars, sessionVars>>

(***************************************************************************)
(* The job a command names: the first one in the collection that belongs   *)
(* to the chat and whose id begins with the prefix (service.ts 136-138,    *)
(* 150-152).  0 when there is none (findIndex gives -1, find undefined).   *)
(***************************************************************************)
startsWith(str, prefix) ==
    Len(prefix) <= Len(str) /\ SubSeq(str, 1, Len(prefix)) = prefix

findIndexAnyOwner(js, chatId, idPrefix) ==
    LET found == {i \in 1..Len(js) : startsWith(Uuid(js[i].id), idPrefix)}
    IN  IF found = {} THEN 0 ELSE CHOOSE i \in found : \A k \in found : i <= k

findIndex(js, chatId, idPrefix) ==
    LET found == {i \in 1..Len(js) :
                     js[i].chatId = chatId /\ startsWith(Uuid(js[i].id), idPrefix)}
    IN  IF found = {} THEN 0 ELSE CHOOSE i \in found : \A k \in found : i <= k

(***************************************************************************)
(* removeJob, up to its persist (service.ts 135-141), or to its return     *)
(* when no job matches (139).                                              *)
(***************************************************************************)
removeJob(chatId, idPrefix) ==
    /\ startPc = "done"
    /\ LET idx == findIndex(jobs, chatId, idPrefix)
       IN  IF idx = 0
           THEN /\ refused < MaxRefused
                /\ refused' = refused + 1
                /\ UNCHANGED <<jobs, crud>>
           ELSE /\ jobs' = RemoveAt(jobs, idx)
                /\ crud' = crud + 1
                /\ UNCHANGED refused
    /\ UNCHANGED <<now, epoch, crashes, nextId, disk, timer, running, started,
                   startPc, missed, tickPc, dueJobs, execs, fired, bootSeq,
                   interrupted, consumed,
                   errorRuns, storeVars, calcVars,
                   queueVars, timerVars, sessionVars>>

(***************************************************************************)
(* create / remove after the persist: armTimer (service.ts 119, 142).      *)
(***************************************************************************)
crudPersisted ==
    /\ crud > 0
    /\ disk' = saveSchedulerStore(StoreOf(jobs))
    /\ timer' = armTimer(jobs, started, now)
    /\ crud' = crud - 1
    /\ UNCHANGED <<now, epoch, crashes, nextId, jobs, running, started, startPc,
                   missed, tickPc, dueJobs, execs, fired, bootSeq,
                   interrupted, consumed,
                   errorRuns, refused, storeVars, calcVars,
                   queueVars, timerVars, sessionVars>>

(***************************************************************************)
(* A faulty forceRunJob: it runs the job only when the job is due.         *)
(***************************************************************************)
forceRunJobWhenDue(chatId, idPrefix) ==
    /\ startPc = "done"
    /\ LET idx == findIndex(jobs, chatId, idPrefix)
       IN  IF idx = 0 \/ (idx # 0 /\ ~isDue(jobs[idx], now))
           THEN /\ refused < MaxRefused
                /\ refused' = refused + 1
                /\ UNCHANGED <<jobs, execs>>
           ELSE /\ jobs' = markRunning(jobs, jobs[idx].id, now)
                /\ execs' = Append(execs, NewExec("force", jobs[idx].id, now))
                /\ UNCHANGED refused
    /\ UNCHANGED <<now, epoch, crashes, nextId, disk, timer, running, started,
                   startPc, missed, tickPc, dueJobs, crud, fired, bootSeq,
                   interrupted, consumed,
                   errorRuns, storeVars, calcVars,
                   queueVars, timerVars, sessionVars>>

(***************************************************************************)
(* forceRunJob (service.ts 149-158): executeJob is entered at once and not *)
(* awaited; with no matching job the call returns false (153).             *)
(***************************************************************************)
forceRunJob(chatId, idPrefix) ==
    /\ startPc = "done"
    /\ LET idx == findIndex(jobs, chatId, idPrefix)
       IN  IF idx = 0
           THEN /\ refused < MaxRefused
                /\ refused' = refused + 1
                /\ UNCHANGED <<jobs, execs>>
           ELSE /\ jobs' = markRunning(jobs, jobs[idx].id, now)
                /\ execs' = Append(execs, NewExec("force", jobs[idx].id, now))
                /\ UNCHANGED refused
    /\ UNCHANGED <<now, epoch, crashes, nextId, disk, timer, running, started,
                   startPc, missed, tickPc, dueJobs, crud, fired, bootSeq,
                   interrupted, consumed,
                   errorRuns, storeVars, calcVars,
                   queueVars, timerVars, sessionVars>>

(***************************************************************************)
(* A faulty onTimer without the busy branch: a callback that fires during  *)
(* a tick looks for due jobs and dispatches them as any other.             *)
(***************************************************************************)
onTimerReentrant ==
    /\ timer # None
    /\ now >= timer
    /\ LET due == findDueJobs(jobs, now)
       IN  IF due = <<>>
           THEN /\ timer' = armTimer(jobs, started, now)
                /\ UNCHANGED <<jobs, running, tickPc, dueJobs>>
           ELSE /\ jobs' = [i \in 1..Len(jobs) |->
                              IF jobs[i].id \in {due[k] : k \in 1..Len(due)}
                              THEN [jobs[i] EXCEPT !.runningAtMs = now,
                                                   !.lastError = "none"]
                              ELSE jobs[i]]
                /\ running' = TRUE
                /\ tickPc' = "persist"
                /\ dueJobs' = due
                /\ timer' = None
    /\ UNCHANGED <<now, epoch, crashes, nextId, disk, started, startPc, missed,
                   execs, crud, fired, bootSeq, interrupted, consumed,
                   errorRuns, refused, storeVars, calcVars,
                   queueVars, timerVars, sessionVars>>

(***************************************************************************)
(* onTimer, up to its persist (service.ts 212-238).  The timeout fires at  *)
(* the instant it was armed for.                                           *)
(***************************************************************************)
onTimer ==
    /\ timer # None
    /\ now >= timer
    /\ IF running
       THEN /\ timer' = now + MAX_TIMER_DELAY_MS
            /\ UNCHANGED <<jobs, running, tickPc, dueJobs>>
       ELSE LET due == findDueJobs(jobs, now)
            IN  IF due = <<>>
                THEN /\ timer' = armTimer(jobs, started, now)
                     /\ UNCHANGED <<jobs, running, tickPc, dueJobs>>
                ELSE /\ jobs' = [i \in 1..Len(jobs) |->
                                   IF jobs[i].id \in {due[k] : k \in 1..Len(due)}
                                   THEN [jobs[i] EXCEPT !.runningAtMs = now,
                                                        !.lastError = "none"]
                                   ELSE jobs[i]]
                     /\ running' = TRUE
                     /\ tickPc' = "persist"
                     /\ dueJobs' = due
                     /\ timer' = None
    /\ UNCHANGED <<now, epoch, crashes, nextId, disk, started, startPc, missed,
                   execs, crud, fired, bootSeq, interrupted, consumed,
                   errorRuns, refused, storeVars, calcVars,
                   queueVars, timerVars, sessionVars>>

(***************************************************************************)
(* onTimer after its persist: executeJob is entered for the first due job  *)
(* (service.ts 241-242, 260-268).                                          *)
(***************************************************************************)
onTimerPersisted ==
    /\ tickPc = "persist"
    /\ disk' = saveSchedulerStore(StoreOf(jobs))
    /\ jobs' = markRunning(jobs, Head(dueJobs), now)
    /\ execs' = Append(execs, NewExec("tick", Head(dueJobs), now))
    /\ fired' = Bump(fired, Head(dueJobs))
    /\ tickPc' = "exec"
    /\ UNCHANGED <<now, epoch, crashes, nextId, timer, running, started, startPc,
                   missed, dueJobs, crud, bootSeq, interrupted, consumed,
                   errorRuns, refused, storeVars, calcVars,
                   queueVars, timerVars, sessionVars>>

(***************************************************************************)
(* executeJob after the executor call settled (service.ts 269-288): the    *)
(* result is applied, a successful one-shot job is filtered out of the     *)
(* collection, and persist is called.  A thrown call is status "error".    *)
(***************************************************************************)
executorReturns(i, status) ==
    /\ i \in 1..Len(execs)
    /\ execs[i].phase = "run"
    /\ LET e == execs[i]
           present == HasJob(jobs, e.job)
           job == JobOf(jobs, e.job)
           error == IF status = "error" THEN "boom" ELSE "none"
           applied == applyJobResult(job, status, error, e.startedAt, now)
       IN  /\ jobs' = IF ~present THEN jobs
                      ELSE IF shouldDelete(job, status)
                      THEN RemoveAt(jobs, CHOOSE k \in 1..Len(jobs) :
                                              jobs[k].id = e.job)
                      ELSE SetJob(jobs, e.job, applied)
           /\ execs' = [execs EXCEPT ![i] = [e EXCEPT !.phase = "persist",
                                                      !.status = status]]
           /\ consumed' = IF present /\ job.schedule.kind = "at"
                          THEN consumed \cup {e.job} ELSE consumed
           /\ errorRuns' = IF ~present THEN errorRuns
                           ELSE [errorRuns EXCEPT ![e.job] =
                                    IF status = "ok" THEN 0 ELSE @ + 1]
    /\ UNCHANGED <<now, epoch, crashes, nextId, disk, timer, running, started,
                   startPc, missed, tickPc, dueJobs, crud, fired, bootSeq,
                   interrupted, refused, storeVars,
                   calcVars, queueVars, timerVars, sessionVars>>

(***************************************************************************)
(* A faulty tick: a run that ended with error makes the tick leave its     *)
(* loop, as if the failure had been raised out of executeJob.              *)
(***************************************************************************)
executeJobPersistedStoppingOnError(i) ==
    /\ i \in 1..Len(execs)
    /\ execs[i].phase = "persist"
    /\ disk' = saveSchedulerStore(StoreOf(jobs))
    /\ LET e == execs[i]
           rest == RemoveAt(execs, i)
       IN  CASE e.origin = "force" ->
                  /\ execs' = rest
                  /\ UNCHANGED <<jobs, timer, running, startPc, missed, tickPc,
                                 dueJobs, fired, bootSeq>>
             [] e.origin = "tick" /\ Len(dueJobs) > 1 /\ e.status # "error" ->
                  /\ dueJobs' = Tail(dueJobs)
                  /\ jobs' = markRunning(jobs, dueJobs[2], now)
                  /\ execs' = Append(rest, NewExec("tick", dueJobs[2], now))
                  /\ fired' = Bump(fired, dueJobs[2])
                  /\ UNCHANGED <<timer, running, startPc, missed, tickPc,
                                 bootSeq>>
             [] e.origin = "tick" /\ (Len(dueJobs) <= 1 \/ e.status = "error") ->
                  /\ dueJobs' = <<>>
                  /\ execs' = rest
                  /\ running' = FALSE
                  /\ timer' = armTimer(jobs, started, now)
                  /\ tickPc' = "idle"
                  /\ UNCHANGED <<jobs, startPc, missed, fired, bootSeq>>
             [] e.origin = "start" /\ Len(missed) > 1 ->
                  /\ missed' = Tail(missed)
                  /\ jobs' = markRunning(jobs, missed[2], now)
                  /\ execs' = Append(rest, NewExec("start", missed[2], now))
                  /\ fired' = Bump(fired, missed[2])
                  /\ bootSeq' = Append(bootSeq, missed[2])
                  /\ UNCHANGED <<timer, running, startPc, tickPc, dueJobs>>
             [] e.origin = "start" /\ Len(missed) <= 1 ->
                  /\ missed' = <<>>
                  /\ execs' = rest
                  /\ timer' = armTimer(jobs, started, now)
                  /\ startPc' = "done"
                  /\ UNCHANGED <<jobs, running, tickPc, dueJobs, fired, bootSeq>>
    /\ UNCHANGED <<now, epoch, crashes, nextId, started, crud, interrupted, consumed,
                   errorRuns, refused, storeVars, calcVars,
                   queueVars, timerVars, sessionVars>>

(***************************************************************************)
(* executeJob after its persist (service.ts 288), and what its caller does *)
(* next: onTimer enters the next due job or leaves through finally         *)
(* (service.ts 241-247); runMissedJobs enters the next missed job or       *)
(* start() arms the timer (service.ts 348-350, 73); a forced run ends.     *)
(***************************************************************************)
executeJobPersisted(i) ==
    /\ i \in 1..Len(execs)
    /\ execs[i].phase = "persist"
    /\ disk' = saveSchedulerStore(StoreOf(jobs))
    /\ LET e == execs[i]
           rest == RemoveAt(execs, i)
       IN  CASE e.origin = "force" ->
                  /\ execs' = rest
                  /\ UNCHANGED <<jobs, timer, running, startPc, missed, tickPc,
                                 dueJobs, fired, bootSeq>>
             [] e.origin = "tick" /\ Len(dueJobs) > 1 ->
                  /\ dueJobs' = Tail(dueJobs)
                  /\ jobs' = markRunning(jobs, dueJobs[2], now)
                  /\ execs' = Append(rest, NewExec("tick", dueJobs[2], now))
                  /\ fired' = Bump(fired, dueJobs[2])
                  /\ UNCHANGED <<timer, running, startPc, missed, tickPc,
                                 bootSeq>>
             [] e.origin = "tick" /\ Len(dueJobs) <= 1 ->
                  /\ dueJobs' = <<>>
                  /\ execs' = rest
                  /\ running' = FALSE
                  /\ timer' = armTimer(jobs, started, now)
                  /\ tickPc' = "idle"
                  /\ UNCHANGED <<jobs, startPc, missed, fired, bootSeq>>
             [] e.origin = "start" /\ Len(missed) > 1 ->
                  /\ missed' = Tail(missed)
                  /\ jobs' = markRunning(jobs, missed[2], now)
                  /\ execs' = Append(rest, NewExec("start", missed[2], now))
                  /\ fired' = Bump(fired, missed[2])
                  /\ bootSeq' = Append(bootSeq, missed[2])
                  /\ UNCHANGED <<timer, running, startPc, tickPc, dueJobs>>
             [] e.origin = "start" /\ Len(missed) <= 1 ->
                  /\ missed' = <<>>
                  /\ execs' = rest
                  /\ timer' = armTimer(jobs, started, now)
                  /\ startPc' = "done"
                  /\ UNCHANGED <<jobs, running, tickPc, dueJobs, fired, bootSeq>>
    /\ UNCHANGED <<now, epoch, crashes, nextId, started, crud, interrupted, consumed,
                   errorRuns, refused, storeVars, calcVars,
                   queueVars, timerVars, sessionVars>>

(***************************************************************************)
(* The tick when a persist of it rejects.  saveSchedulerStore rejects      *)
(* before its rename or at it, so the file is as it was.  After the        *)
(* marking (service.ts 238) or inside executeJob (287, the rejection       *)
(* leaves executeJob and the loop at 241-243) the finally block runs       *)
(* (244-247) and the error goes to the catch of the timer callback         *)
(* (193-195), which logs it.  The jobs not yet executed keep the marker    *)
(* of the tick.                                                            *)
(***************************************************************************)
onTimerPersistThrowsKeepingFlag ==
    /\ tickPc = "persist"
    /\ timer' = armTimer(jobs, started, now)
    /\ tickPc' = "idle"
    /\ dueJobs' = <<>>
    /\ UNCHANGED <<now, epoch, crashes, nextId, disk, jobs, running, started,
                   startPc, missed, execs, crud, fired, bootSeq, interrupted,
                   consumed, errorRuns, refused, storeVars, calcVars,
                   queueVars, timerVars, sessionVars>>

onTimerPersistThrows ==
    /\ tickPc = "persist"
    /\ running' = FALSE
    /\ timer' = armTimer(jobs, started, now)
    /\ tickPc' = "idle"
    /\ dueJobs' = <<>>
    /\ UNCHANGED <<now, epoch, crashes, nextId, disk, jobs, started, startPc,
                   missed, execs, crud, fired, bootSeq, interrupted, consumed,
                   errorRuns, refused, storeVars, calcVars,
                   queueVars, timerVars, sessionVars>>

executeJobPersistThrows(i) ==
    /\ i \in 1..Len(execs)
    /\ execs[i].phase = "persist"
    /\ execs[i].origin = "tick"
    /\ execs' = RemoveAt(execs, i)
    /\ running' = FALSE
    /\ timer' = armTimer(jobs, started, now)
    /\ tickPc' = "idle"
    /\ dueJobs' = <<>>
    /\ UNCHANGED <<now, epoch, crashes, nextId, disk, jobs, started, startPc,
                   missed, crud, fired, bootSeq, interrupted, consumed,
                   errorRuns, refused, storeVars, calcVars,
                   queueVars, timerVars, sessionVars>>

(***************************************************************************)
(* stop() (service.ts 79-86), called by the shutdown handler (index.ts     *)
(* 44); the process goes on until the bot has stopped (index.ts 50-53).    *)
(***************************************************************************)
stop ==
    /\ startPc = "done"
    /\ started
    /\ timer' = None
    /\ started' = FALSE
    /\ UNCHANGED <<now, epoch, crashes, nextId, disk, jobs, running, startPc,
                   missed, tickPc, dueJobs, execs, crud, fired, bootSeq,
                   interrupted, consumed, errorRuns, refused, storeVars,
                   calcVars, queueVars, timerVars, sessionVars>>

(***************************************************************************)
(* The clock.  Time passes while the process runs, up to the instant of    *)
(* the pending timeout, which then fires (onTimer).                        *)
(***************************************************************************)
Advance(d) ==
    /\ startPc # "init"
    /\ timer = None \/ now < timer
    /\ now' = IF timer # None THEN Min(now + d, timer) ELSE now + d
    /\ UNCHANGED <<epoch, crashes, nextId, disk, jobs, timer, running, started,
                   startPc, missed, tickPc, dueJobs, execs, crud, fired,
                   bootSeq, interrupted, consumed,
                   errorRuns, refused, storeVars, calcVars,
                   queueVars, timerVars, sessionVars>>

(***************************************************************************)
(* Unclean process exit: everything in memory is lost, the file stays.     *)
(* The jobs a tick had marked and persisted and whose executor call has    *)
(* not returned are remembered in interrupted.                             *)
(***************************************************************************)
Crash ==
    /\ startPc # "init"
    /\ crashes' = crashes + 1
    /\ interrupted' =
          IF tickPc = "exec"
          THEN {dueJobs[k] : k \in 1..Len(dueJobs)}
               \ {execs[k].job : k \in {n \in 1..Len(execs) :
                                           execs[n].origin = "tick"
                                           /\ execs[n].phase = "persist"}}
          ELSE {}
    /\ jobs' = <<>>
    /\ timer' = None
    /\ running' = FALSE
    /\ started' = FALSE
    /\ startPc' = "init"
    /\ missed' = <<>>
    /\ tickPc' = "idle"
    /\ dueJobs' = <<>>
    /\ execs' = <<>>
    /\ crud' = 0
    /\ UNCHANGED <<now, epoch, nextId, disk, fired, bootSeq, consumed,
                   errorRuns, refused, storeVars, calcVars,
                   queueVars, timerVars, sessionVars>>

(***************************************************************************)
(* The environment within the bounds: how many jobs are created, how many  *)
(* commands and forced runs overlap, how many errors in a row the executor *)
(* reports, how long the process stays up.                                 *)
(***************************************************************************)
ForcedInFlight == Cardinality({i \in 1..Len(execs) : execs[i].origin = "force"})

ErrorsOf(id) ==
    IF ~HasJob(jobs, id) THEN 0
    ELSE IF JobOf(jobs, id).consecutiveErrors = None THEN 0
    ELSE JobOf(jobs, id).consecutiveErrors

MayReturn(i, status, maxErrors) ==
    /\ i \in 1..Len(execs)
    /\ status = "error" => ErrorsOf(execs[i].job) < maxErrors

MayAdvance(d, maxUp) ==
    (IF timer # None THEN Min(now + d, timer) ELSE now + d) <= epoch + maxUp

ExecSlots == 1..(MaxForce + 2)

Next ==
    \/ \E d \in (IF crashes = 0 THEN {0} ELSE DownTimes) : start(d)
    \/ runMissedJobs
    \/ \E input \in OnceInputs :
          nextId < MaxJobs /\ crud < MaxCrud
          /\ createFromNaturalLanguage(OwnerChat, input, "once")
    \/ \E input \in RecurringInputs :
          nextId < MaxJobs /\ crud < MaxCrud
          /\ createFromNaturalLanguage(OwnerChat, input, "recurring")
    \/ \E id \in Ids(jobs) : crud < MaxCrud /\ removeJob(OwnerChat, Uuid(id))
    \/ crudPersisted
    \/ \E id \in Ids(jobs) :
          ForcedInFlight < MaxForce /\ forceRunJob(OwnerChat, Uuid(id))
    \/ onTimer
    \/ onTimerPersisted
    \/ \E i \in ExecSlots, status \in {"ok", "error"} :
          MayReturn(i, status, MaxErrors) /\ executorReturns(i, status)
    \/ \E i \in ExecSlots : executeJobPersisted(i)
    \/ \E d \in Deltas : MayAdvance(d, MaxUp) /\ Advance(d)
    \/ crashes < MaxCrashes /\ Crash

Spec == Init /\ [][Next]_vars

(***************************************************************************)
(* The same engine with two jobs in the collection, both created at the    *)
(* first instant, and no process exit: ticks with a due set of two jobs,   *)
(* overlapped by forced runs.                                              *)
(***************************************************************************)
PairNext ==
    \/ start(0)
    \/ runMissedJobs
    \/ \E input \in OnceInputs :
          nextId < MaxPairJobs /\ crud < MaxCrud /\ now <= MaxCreateAt
          /\ createFromNaturalLanguage(OwnerChat, input, "once")
    \/ \E input \in RecurringInputs :
          nextId < MaxPairJobs /\ crud < MaxCrud /\ now <= MaxCreateAt
          /\ createFromNaturalLanguage(OwnerChat, input, "recurring")
    \/ crudPersisted
    \/ \E id \in Ids(jobs) :
          ForcedInFlight < MaxForce /\ forceRunJob(OwnerChat, Uuid(id))
    \/ onTimer
    \/ onTimerPersisted
    \/ \E i \in ExecSlots, status \in {"ok", "error"} :
          MayReturn(i, status, MaxPairErrors) /\ executorReturns(i, status)
    \/ \E i \in ExecSlots : executeJobPersisted(i)
    \/ \E d \in Deltas : MayAdvance(d, MaxPairUp) /\ Advance(d)

PairSpec == Init /\ [][PairNext]_vars

(***************************************************************************)
(* The same two-job engine started on a store file that already holds a    *)
(* one-shot job with deleteAfterRun false and no nextRunAtMs yet (the      *)
(* store file is an input of start(); ScheduledJob allows the combination).*)
(***************************************************************************)
StoredKeptJob ==
    [NewJob(OwnerChat, 1, AtSchedule(60000), "once", 0)
        EXCEPT !.deleteAfterRun = FALSE, !.nextRunAtMs = None]

KeepInit ==
    /\ now = 0
    /\ epoch = 0
    /\ crashes = 0
    /\ nextId = 1
    /\ disk = saveSchedulerStore(StoreOf(<<StoredKeptJob>>))
    /\ jobs = <<>>
    /\ timer = None
    /\ running = FALSE
    /\ started = FALSE
    /\ startPc = "init"
    /\ missed = <<>>
    /\ tickPc = "idle"
    /\ dueJobs = <<>>
    /\ execs = <<>>
    /\ crud = 0
    /\ fired = [i \in JobIds |-> 0]
    /\ bootSeq = <<>>
    /\ interrupted = {}
    /\ consumed = {}
    /\ errorRuns = [i \in JobIds |-> 0]
    /\ StoreIdle
    /\ refused = 0
    /\ CalcIdle
    /\ QueueIdle
    /\ TimersIdle
    /\ SessionsIdle

KeepSpec == KeepInit /\ [][PairNext]_vars

(***************************************************************************)
(* The engine started on a store file that holds a Cron job whose          *)
(* expression is empty, a schedule with no next run, over a short uptime.  *)
(***************************************************************************)
StoredNeverJob == NewJob(OwnerChat, 1, CronExprSchedule(""), "recurring", 0)

NeverInit ==
    /\ now = 0
    /\ epoch = 0
    /\ crashes = 0
    /\ nextId = 1
    /\ disk = saveSchedulerStore(StoreOf(<<StoredNeverJob>>))
    /\ jobs = <<>>
    /\ timer = None
    /\ running = FALSE
    /\ started = FALSE
    /\ startPc = "init"
    /\ missed = <<>>
    /\ tickPc = "idle"
    /\ dueJobs = <<>>
    /\ execs = <<>>
    /\ crud = 0
    /\ fired = [i \in JobIds |-> 0]
    /\ bootSeq = <<>>
    /\ interrupted = {}
    /\ consumed = {}
    /\ errorRuns = [i \in JobIds |-> 0]
    /\ StoreIdle
    /\ refused = 0
    /\ CalcIdle
    /\ QueueIdle
    /\ TimersIdle
    /\ SessionsIdle

NeverNext ==
    \/ start(0)
    \/ runMissedJobs
    \/ \E input \in OnceInputs :
          nextId < MaxPairJobs /\ crud < MaxCrud
          /\ createFromNaturalLanguage(OwnerChat, input, "once")
    \/ \E input \in RecurringInputs :
          nextId < MaxPairJobs /\ crud < MaxCrud
          /\ createFromNaturalLanguage(OwnerChat, input, "recurring")
    \/ crudPersisted
    \/ \E id \in Ids(jobs) :
          ForcedInFlight < MaxForce /\ forceRunJob(OwnerChat, Uuid(id))
    \/ onTimer
    \/ onTimerPersisted
    \/ \E i \in ExecSlots, status \in {"ok", "error"} :
          MayReturn(i, status, MaxPairErrors) /\ executorReturns(i, status)
    \/ \E i \in ExecSlots : executeJobPersisted(i)
    \/ \E d \in Deltas : MayAdvance(d, MaxNeverUp) /\ Advance(d)

NeverSpec == NeverInit /\ [][NeverNext]_vars

(***************************************************************************)
(* Two jobs created at the first instant and a long uptime, no forced run  *)
(* and no process exit: ticks whose executor calls last for minutes while  *)
(* the jobs they have rescheduled become due again.                        *)
(***************************************************************************)
CeilNext ==
    \/ start(0)
    \/ runMissedJobs
    \/ \E input \in OnceInputs :
          nextId < MaxPairJobs /\ crud < MaxCrud /\ now <= MaxCreateAt
          /\ createFromNaturalLanguage(OwnerChat, input, "once")
    \/ \E input \in RecurringInputs :
          nextId < MaxPairJobs /\ crud < MaxCrud /\ now <= MaxCreateAt
          /\ createFromNaturalLanguage(OwnerChat, input, "recurring")
    \/ crudPersisted
    \/ onTimer
    \/ onTimerPersisted
    \/ \E i \in ExecSlots, status \in {"ok", "error"} :
          MayReturn(i, status, MaxPairErrors) /\ executorReturns(i, status)
    \/ \E i \in ExecSlots : executeJobPersisted(i)
    \/ \E d \in Deltas : MayAdvance(d, MaxCeilUp) /\ Advance(d)

CeilSpec == Init /\ [][CeilNext]_vars

(***************************************************************************)
(* saveSchedulerStore step by step (part_001 34-45), for callers that do   *)
(* not wait for one another: every await is a point where another call, a  *)
(* failure of the awaited operation or the end of the process may come.    *)
(* A call in flight is [id, store, pc, json, base, src]: id stands for the *)
(* temporary file name (process.pid and Math.random(), taken as different  *)
(* for the calls of one file system), base is the file the store was       *)
(* loaded from when the call is save(load()), src what copyFile has read.  *)
(***************************************************************************)
NewSave(id, store, hasBase, base) ==
    [id |-> id, store |-> store, pc |-> "mkdir", json |-> <<>>,
     hasBase |-> hasBase, base |-> base, src |-> <<>>]

\* The part of a text that one more step of a write puts after the first n
\* lines, the write being done in WriteSteps steps.
Written(text, n) ==
    SubSeq(text, 1, Min(Len(text),
                        n + Max(1, (Len(text) + WriteSteps - 1) \div WriteSteps)))

\* saveSchedulerStore(store) is called: mkdir is awaited (part_001 35).
saveCalled(store, hasBase, base) ==
    /\ saveCalls < MaxSaveCalls
    /\ Len(saves) < MaxOverlap
    /\ saveCalls' = saveCalls + 1
    /\ saves' = Append(saves, NewSave(saveCalls + 1, store, hasBase, base))
    /\ UNCHANGED <<disk, backup, tmpFiles, loaded, engineVars, calcVars, queueVars, timerVars, sessionVars>>

\* After mkdir: the name and the text are made and writeFile creates the
\* temporary file (part_001 36-38).
saveStringified(i) ==
    /\ i \in 1..Len(saves)
    /\ saves[i].pc = "mkdir"
    /\ saves' = [saves EXCEPT ![i].pc = "write",
                              ![i].json = JSONstringify(saves[i].store)]
    /\ tmpFiles' = [tmpFiles EXCEPT ![saves[i].id] = TextFile(<<>>)]
    /\ UNCHANGED <<disk, backup, saveCalls, loaded, engineVars, calcVars, queueVars, timerVars, sessionVars>>

\* writeFile puts the next part of the text in the temporary file.
saveWrites(i) ==
    /\ i \in 1..Len(saves)
    /\ saves[i].pc = "write"
    /\ tmpFiles[saves[i].id].text # saves[i].json
    /\ tmpFiles' = [tmpFiles EXCEPT ![saves[i].id] =
                       TextFile(Written(saves[i].json, Len(@.text)))]
    /\ UNCHANGED <<disk, backup, saves, saveCalls, loaded, engineVars, calcVars, queueVars, timerVars, sessionVars>>

\* writeFile has resolved: rename is called (part_001 38-39).
saveWritten(i) ==
    /\ i \in 1..Len(saves)
    /\ saves[i].pc = "write"
    /\ tmpFiles[saves[i].id].text = saves[i].json
    /\ saves' = [saves EXCEPT ![i].pc = "rename"]
    /\ UNCHANGED <<disk, backup, tmpFiles, saveCalls, loaded, engineVars, calcVars, queueVars, timerVars, sessionVars>>

(***************************************************************************)
(* A faulty save: rename is called while writeFile is still writing.       *)
(***************************************************************************)
saveRenamedBeforeWritten(i) ==
    /\ i \in 1..Len(saves)
    /\ saves[i].pc \in {"write", "rename"}
    /\ disk' = tmpFiles[saves[i].id]
    /\ tmpFiles' = [tmpFiles EXCEPT ![saves[i].id] = NoFile]
    /\ saves' = [saves EXCEPT ![i].pc = "copy"]
    /\ UNCHANGED <<backup, saveCalls, loaded, engineVars, calcVars, queueVars, timerVars, sessionVars>>

\* rename puts the temporary file in the place of the canonical one, in
\* one step of the file system; copyFile is called (part_001 39-41).
saveRenamed(i) ==
    /\ i \in 1..Len(saves)
    /\ saves[i].pc = "rename"
    /\ disk' = tmpFiles[saves[i].id]
    /\ tmpFiles' = [tmpFiles EXCEPT ![saves[i].id] = NoFile]
    /\ saves' = [saves EXCEPT ![i].pc = "copy"]
    /\ UNCHANGED <<backup, saveCalls, loaded, engineVars, calcVars, queueVars, timerVars, sessionVars>>

\* copyFile has read the canonical file and begun to write the backup.
saveCopies(i) ==
    /\ i \in 1..Len(saves)
    /\ saves[i].pc = "copy"
    /\ disk.exists
    /\ saves' = [saves EXCEPT ![i].pc = "copying", ![i].src = disk.text]
    /\ backup' = TextFile(Written(disk.text, 0))
    /\ UNCHANGED <<disk, tmpFiles, saveCalls, loaded, engineVars, calcVars, queueVars, timerVars, sessionVars>>

\* copyFile has resolved and saveSchedulerStore returns (part_001 41-45).
saveCopied(i) ==
    /\ i \in 1..Len(saves)
    /\ saves[i].pc = "copying"
    /\ backup' = TextFile(saves[i].src)
    /\ saves' = RemoveAt(saves, i)
    /\ UNCHANGED <<disk, tmpFiles, saveCalls, loaded, engineVars, calcVars, queueVars, timerVars, sessionVars>>

\* The awaited operation fails: mkdir, writeFile and rename reject the
\* call (part_001 35-39), a failure of copyFile is caught (40-44).  The
\* files stay as the failed operation left them.
saveThrows(i) ==
    /\ i \in 1..Len(saves)
    /\ saves' = RemoveAt(saves, i)
    /\ UNCHANGED <<disk, backup, tmpFiles, saveCalls, loaded, engineVars, calcVars, queueVars, timerVars, sessionVars>>

\* loadSchedulerStore() is called and settles (part_001 11-29).
load ==
    /\ loaded' = [called |-> TRUE, result |-> loadSchedulerStore(disk),
                  file |-> disk]
    /\ loaded' # loaded
    /\ UNCHANGED <<disk, backup, tmpFiles, saves, saveCalls, engineVars, calcVars, queueVars, timerVars, sessionVars>>

\* The process ends at any point: the calls in flight are gone, the files
\* stay.
processExits ==
    /\ saves # <<>> \/ loaded.called
    /\ saves' = <<>>
    /\ loaded' = NotLoaded
    /\ UNCHANGED <<disk, backup, tmpFiles, saveCalls, engineVars, calcVars, queueVars, timerVars, sessionVars>>

(***************************************************************************)
(* The stores handed to saveSchedulerStore and the files found at the      *)
(* canonical path when the process begins.                                 *)
(***************************************************************************)
FreshJob == NewJob(OwnerChat, 1, EverySchedule(60000, 0), "recurring", 0)
FailedJob ==
    applyJobResult(NewJob(OwnerChat, 2, AtSchedule(60000), "once", 0),
                   "error", "boom", 60000, 61000)

StoreValues ==
    {StoreFile(<<>>, NoTimezones),
     StoreFile(<<FreshJob>>, Timezones(<<[chat |-> "7", tz |-> "UTC"]>>)),
     StoreFile(<<FreshJob, FailedJob>>, NoTimezones)}

\* A valid text that is no object, and an object that is no store as
\* saveSchedulerStore writes it: version 2, a null among the jobs, no
\* timezones.
ForeignText == <<NullLn(0, "")>>
ForeignStoreText ==
    ObjectLns(0, "",
        <<NumLn(1, "version", 2)>>
        \o ArrayLns(1, "jobs", <<NullLn(2, "")>> \o jobLns(FreshJob)))

InitialFiles ==
    {NoFile, TextFile(ForeignText), TextFile(ForeignStoreText)}

StoreInit ==
    /\ now = 0
    /\ epoch = 0
    /\ crashes = 0
    /\ nextId = 0
    /\ disk \in InitialFiles
    /\ jobs = <<>>
    /\ timer = None
    /\ running = FALSE
    /\ started = FALSE
    /\ startPc = "init"
    /\ missed = <<>>
    /\ tickPc = "idle"
    /\ dueJobs = <<>>
    /\ execs = <<>>
    /\ crud = 0
    /\ fired = [i \in JobIds |-> 0]
    /\ bootSeq = <<>>
    /\ interrupted = {}
    /\ consumed = {}
    /\ errorRuns = [i \in JobIds |-> 0]
    /\ StoreIdle
    /\ refused = 0
    /\ CalcIdle
    /\ QueueIdle
    /\ TimersIdle
    /\ SessionsIdle

StoreNext ==
    \/ \E store \in StoreValues : saveCalled(store, FALSE, NoFile)
    \/ loaded.called /\ loaded.result.threw = ""
       /\ saveCalled(loaded.result.store, TRUE, loaded.file)
    \/ \E i \in 1..MaxOverlap : saveStringified(i)
    \/ \E i \in 1..MaxOverlap : saveWrites(i)
    \/ \E i \in 1..MaxOverlap : saveWritten(i)
    \/ \E i \in 1..MaxOverlap : saveRenamed(i)
    \/ \E i \in 1..MaxOverlap : saveCopies(i)
    \/ \E i \in 1..MaxOverlap : saveCopied(i)
    \/ \E i \in 1..MaxOverlap : saveThrows(i)
    \/ load
    \/ processExits

StoreSpec == StoreInit /\ [][StoreNext]_vars

(***************************************************************************)
(* start() on a store file that may be missing, unreadable or cut short.   *)
(* When loadSchedulerStore throws, start() is left at its first line       *)
(* (service.ts 47) and main() ends the process (index.ts 34, 68-71).       *)
(***************************************************************************)
startThrows(d) ==
    /\ startPc = "init"
    /\ loadSchedulerStore(disk).threw # ""
    /\ now' = now + d
    /\ epoch' = now + d
    /\ startPc' = "failed"
    /\ UNCHANGED <<crashes, nextId, disk, jobs, timer, running, started, missed,
                   tickPc, dueJobs, execs, crud, fired, bootSeq, interrupted,
                   consumed, errorRuns, refused, storeVars, calcVars,
                   queueVars, timerVars, sessionVars>>

\* The text of a store with one job, cut after the first part of a write.
TruncatedText == Written(JSONstringify(StoreOf(<<FreshJob>>)), 0)

BootFiles ==
    {NoFile, UnreadableFile, TextFile(TruncatedText),
     saveSchedulerStore(StoreOf(<<FreshJob>>))}

\* How long after the file was left the process begins.
BootTimes == {0, 2 * MAX_TIMER_DELAY_MS}

BootInit ==
    /\ now = 0
    /\ epoch = 0
    /\ crashes = 0
    /\ nextId = 1
    /\ disk \in BootFiles
    /\ jobs = <<>>
    /\ timer = None
    /\ running = FALSE
    /\ started = FALSE
    /\ startPc = "init"
    /\ missed = <<>>
    /\ tickPc = "idle"
    /\ dueJobs = <<>>
    /\ execs = <<>>
    /\ crud = 0
    /\ fired = [i \in JobIds |-> 0]
    /\ bootSeq = <<>>
    /\ interrupted = {}
    /\ consumed = {}
    /\ errorRuns = [i \in JobIds |-> 0]
    /\ StoreIdle
    /\ refused = 0
    /\ CalcIdle
    /\ QueueIdle
    /\ TimersIdle
    /\ SessionsIdle

BootNext ==
    \/ \E d \in BootTimes : start(d)
    \/ \E d \in BootTimes : startThrows(d)
    \/ runMissedJobs
    \/ \E input \in RecurringInputs :
          nextId < MaxPairJobs /\ crud < MaxCrud
          /\ createFromNaturalLanguage(OwnerChat, input, "recurring")
    \/ crudPersisted
    \/ onTimer
    \/ onTimerPersisted
    \/ \E i \in ExecSlots, status \in {"ok", "error"} :
          MayReturn(i, status, MaxPairErrors) /\ executorReturns(i, status)
    \/ \E i \in ExecSlots : executeJobPersisted(i)
    \/ \E d \in Deltas : MayAdvance(d, MaxUp) /\ Advance(d)

BootSpec == BootInit /\ [][BootNext]_vars

(***************************************************************************)
(* Two jobs, process exits and restarts, no forced runs: startup recovery  *)
(* with several jobs in the store.                                         *)
(***************************************************************************)
RecoveryNext ==
    \/ \E d \in (IF crashes = 0 THEN {0} ELSE DownTimes) : start(d)
    \/ runMissedJobs
    \/ \E input \in OnceInputs :
          nextId < MaxPairJobs /\ crud < MaxCrud /\ now <= MaxCreateAt
          /\ createFromNaturalLanguage(OwnerChat, input, "once")
    \/ \E input \in RecurringInputs :
          nextId < MaxPairJobs /\ crud < MaxCrud /\ now <= MaxCreateAt
          /\ createFromNaturalLanguage(OwnerChat, input, "recurring")
    \/ crudPersisted
    \/ onTimer
    \/ onTimerPersisted
    \/ \E i \in ExecSlots, status \in {"ok", "error"} :
          MayReturn(i, status, MaxPairErrors) /\ executorReturns(i, status)
    \/ \E i \in ExecSlots : executeJobPersisted(i)
    \/ \E d \in Deltas : MayAdvance(d, MaxPairUp) /\ Advance(d)
    \/ crashes < MaxCrashes /\ Crash

RecoverySpec == Init /\ [][RecoveryNext]_vars

(***************************************************************************)
(* One job, no forced runs and no removal, with the fairness the event     *)
(* loop gives: a pending continuation runs, an armed timeout fires, the    *)
(* executor call settles (it has a timeout of its own), the clock moves.   *)
(***************************************************************************)
LiveNext ==
    \/ \E d \in (IF crashes = 0 THEN {0} ELSE DownTimes) : start(d)
    \/ runMissedJobs
    \/ \E input \in OnceInputs :
          nextId < MaxJobs /\ crud < MaxCrud
          /\ createFromNaturalLanguage(OwnerChat, input, "once")
    \/ \E input \in RecurringInputs :
          nextId < MaxJobs /\ crud < MaxCrud
          /\ createFromNaturalLanguage(OwnerChat, input, "recurring")
    \/ crudPersisted
    \/ onTimer
    \/ onTimerPersisted
    \/ \E i \in ExecSlots, status \in {"ok", "error"} :
          MayReturn(i, status, MaxPairErrors) /\ executorReturns(i, status)
    \/ \E i \in ExecSlots : executeJobPersisted(i)
    \/ \E d \in Deltas : MayAdvance(d, MaxUp) /\ Advance(d)
    \/ crashes < MaxCrashes /\ Crash

LiveFairness ==
    /\ WF_vars(runMissedJobs)
    /\ WF_vars(crudPersisted)
    /\ WF_vars(onTimer)
    /\ WF_vars(onTimerPersisted)
    /\ WF_vars(\E i \in ExecSlots, status \in {"ok", "error"} :
                  MayReturn(i, status, MaxPairErrors) /\ executorReturns(i, status))
    /\ WF_vars(\E i \in ExecSlots : executeJobPersisted(i))
    /\ WF_vars(\E d \in Deltas : MayAdvance(d, MaxUp) /\ Advance(d))

LiveSpec == Init /\ [][LiveNext]_vars /\ LiveFairness

(***************************************************************************)
(* One recurring job on a clock sampled around the interval boundaries     *)
(* (k * 60000 - 1, k * 60000, k * 60000 + 1): the first end-to-end         *)
(* scenario.  The process stays up.                                        *)
(***************************************************************************)
FinePoints ==
    {k * 60000 + o : k \in 0..MaxFineK, o \in {0 - 1, 0, 1}} \cap Nat

FineNext ==
    \/ start(0)
    \/ runMissedJobs
    \/ \E input \in RecurringInputs :
          nextId < MaxJobs /\ crud < MaxCrud
          /\ createFromNaturalLanguage(OwnerChat, input, "recurring")
    \/ crudPersisted
    \/ onTimer
    \/ onTimerPersisted
    \/ \E i \in ExecSlots, status \in {"ok", "error"} :
          MayReturn(i, status, MaxPairErrors) /\ executorReturns(i, status)
    \/ \E i \in ExecSlots : executeJobPersisted(i)
    \/ \E t \in FinePoints : t > now /\ Advance(t - now)

FineSpec == Init /\ [][FineNext]_vars

(***************************************************************************)
(*                               PROPERTIES                                *)
(***************************************************************************)

(***************************************************************************)
(* Ticks whose persists may reject, with no unclean exit.  What is awaited *)
(* settles: a save resolves or rejects, the executor call returns (it has  *)
(* a timeout of its own, part_000 19 and 52), and a timeout that is due    *)
(* fires.                                                                  *)
(***************************************************************************)
FaultNext ==
    \/ start(0)
    \/ runMissedJobs
    \/ \E input \in OnceInputs :
          nextId < MaxPairJobs /\ crud < MaxCrud /\ now <= MaxCreateAt
          /\ createFromNaturalLanguage(OwnerChat, input, "once")
    \/ \E input \in RecurringInputs :
          nextId < MaxPairJobs /\ crud < MaxCrud /\ now <= MaxCreateAt
          /\ createFromNaturalLanguage(OwnerChat, input, "recurring")
    \/ crudPersisted
    \/ onTimer
    \/ onTimerPersisted
    \/ onTimerPersistThrows
    \/ \E i \in ExecSlots, status \in {"ok", "error"} :
          MayReturn(i, status, MaxPairErrors) /\ executorReturns(i, status)
    \/ \E i \in ExecSlots : executeJobPersisted(i)
    \/ \E i \in ExecSlots : executeJobPersistThrows(i)
    \/ \E d \in Deltas : MayAdvance(d, MaxPairUp) /\ Advance(d)

FaultFairness ==
    /\ WF_vars(onTimerPersisted \/ onTimerPersistThrows)
    /\ WF_vars(\E i \in ExecSlots, status \in {"ok", "error"} :
                  MayReturn(i, status, MaxPairErrors) /\ executorReturns(i, status))
    /\ WF_vars(\E i \in ExecSlots :
                  executeJobPersisted(i) \/ executeJobPersistThrows(i))

FaultSpec == Init /\ [][FaultNext]_vars /\ FaultFairness

(***************************************************************************)
(* The engine with its shutdown: stop() may be called once start() has     *)
(* returned, and commands and a tick in progress go on after it.           *)
(***************************************************************************)
StopNext ==
    \/ start(0)
    \/ runMissedJobs
    \/ \E input \in OnceInputs :
          nextId < MaxPairJobs /\ crud < MaxCrud /\ now <= MaxCreateAt
          /\ createFromNaturalLanguage(OwnerChat, input, "once")
    \/ \E input \in RecurringInputs :
          nextId < MaxPairJobs /\ crud < MaxCrud /\ now <= MaxCreateAt
          /\ createFromNaturalLanguage(OwnerChat, input, "recurring")
    \/ crudPersisted
    \/ onTimer
    \/ onTimerPersisted
    \/ \E i \in ExecSlots, status \in {"ok", "error"} :
          MayReturn(i, status, MaxPairErrors) /\ executorReturns(i, status)
    \/ \E i \in ExecSlots : executeJobPersisted(i)
    \/ \E d \in Deltas : MayAdvance(d, MaxCeilUp) /\ Advance(d)
    \/ stop

StopSpec == Init /\ [][StopNext]_vars

(***************************************************************************)
(* persist() with its awaits, for engine operations that overlap.  An      *)
(* operation that has called persist() (service.ts 354-356) waits for      *)
(* mkdir; when mkdir has resolved saveSchedulerStore stringifies the       *)
(* store object it was handed -- this.store, as it is at that moment --    *)
(* and writes, renames and copies (part_001 36-41).  The operations of the *)
(* file system belong to different calls and end in either order.  The     *)
(* save of a create is the call PersistOfCreate, that of a forced run      *)
(* PersistOfForceRun.                                                      *)
(***************************************************************************)
PersistOfCreate == 1
PersistOfForceRun == 2

persistAwaited(id) ==
    \/ id = PersistOfCreate /\ crud > 0
    \/ /\ id = PersistOfForceRun
       /\ \E i \in 1..Len(execs) :
             execs[i].origin = "force" /\ execs[i].phase = "persist"

persistStringifies(id) ==
    /\ persistAwaited(id)
    /\ \A i \in 1..Len(saves) : saves[i].id # id
    /\ saves' = Append(saves,
                       [NewSave(id, StoreOf(jobs), FALSE, NoFile)
                          EXCEPT !.pc = "write",
                                 !.json = JSONstringify(StoreOf(jobs))])
    /\ tmpFiles' = [tmpFiles EXCEPT ![id] = TextFile(<<>>)]
    /\ UNCHANGED <<disk, backup, saveCalls, loaded, engineVars, calcVars,
                   queueVars, timerVars, sessionVars>>

\* create after its persist has resolved: armTimer (service.ts 118-121).
createPersisted ==
    /\ crud > 0
    /\ \E i \in 1..Len(saves) :
          /\ saves[i].id = PersistOfCreate
          /\ saves[i].pc = "copying"
          /\ backup' = TextFile(saves[i].src)
          /\ saves' = RemoveAt(saves, i)
    /\ timer' = armTimer(jobs, started, now)
    /\ crud' = crud - 1
    /\ UNCHANGED <<now, epoch, crashes, nextId, disk, jobs, running, started,
                   startPc, missed, tickPc, dueJobs, execs, fired, bootSeq,
                   interrupted, consumed, errorRuns, refused, tmpFiles,
                   saveCalls, loaded, calcVars, queueVars, timerVars, sessionVars>>

\* executeJob of a forced run after its persist has resolved: it returns
\* (service.ts 288-289, 156).
forceRunPersisted ==
    /\ \E i \in 1..Len(saves) :
          /\ saves[i].id = PersistOfForceRun
          /\ saves[i].pc = "copying"
          /\ backup' = TextFile(saves[i].src)
          /\ saves' = RemoveAt(saves, i)
    /\ \E i \in 1..Len(execs) :
          /\ execs[i].origin = "force"
          /\ execs[i].phase = "persist"
          /\ execs' = RemoveAt(execs, i)
    /\ UNCHANGED <<now, epoch, crashes, nextId, disk, jobs, timer, running,
                   started, startPc, missed, tickPc, dueJobs, crud, fired,
                   bootSeq, interrupted, consumed, errorRuns, refused,
                   tmpFiles, saveCalls, loaded, calcVars, queueVars, timerVars, sessionVars>>

FlushNext ==
    \/ start(0)
    \/ runMissedJobs
    \/ \E input \in RecurringInputs :
          nextId < MaxPairJobs /\ crud < MaxCrud
          /\ createFromNaturalLanguage(OwnerChat, input, "recurring")
    \/ \E id \in Ids(jobs) :
          ForcedInFlight < MaxForce /\ forceRunJob(OwnerChat, Uuid(id))
    \/ \E i \in ExecSlots, status \in {"ok", "error"} :
          MayReturn(i, status, MaxPairErrors) /\ executorReturns(i, status)
    \/ \E id \in SaveIds : persistStringifies(id)
    \/ \E i \in 1..MaxOverlap : saveWrites(i)
    \/ \E i \in 1..MaxOverlap : saveWritten(i)
    \/ \E i \in 1..MaxOverlap : saveRenamed(i)
    \/ \E i \in 1..MaxOverlap : saveCopies(i)
    \/ createPersisted
    \/ forceRunPersisted

FlushSpec == Init /\ [][FlushNext]_vars

(***************************************************************************)
(* Two jobs created at the first instant, ticks with a due set of two, and *)
(* remove commands at any time, a tick in progress included.               *)
(***************************************************************************)
RemoveNext ==
    \/ start(0)
    \/ runMissedJobs
    \/ \E input \in OnceInputs :
          nextId < MaxPairJobs /\ crud < MaxCrud /\ now <= MaxCreateAt
          /\ createFromNaturalLanguage(OwnerChat, input, "once")
    \/ \E input \in RecurringInputs :
          nextId < MaxPairJobs /\ crud < MaxCrud /\ now <= MaxCreateAt
          /\ createFromNaturalLanguage(OwnerChat, input, "recurring")
    \/ \E id \in Ids(jobs) : crud < MaxCrud /\ removeJob(OwnerChat, Uuid(id))
    \/ crudPersisted
    \/ onTimer
    \/ onTimerPersisted
    \/ \E i \in ExecSlots, status \in {"ok", "error"} :
          MayReturn(i, status, MaxPairErrors) /\ executorReturns(i, status)
    \/ \E i \in ExecSlots : executeJobPersisted(i)
    \/ \E d \in Deltas : MayAdvance(d, MaxPairUp) /\ Advance(d)

RemoveSpec == Init /\ [][RemoveNext]_vars

(***************************************************************************)
(* The timeouts of the engine one by one.  timeouts[k] is the k-th         *)
(* setTimeout call of the engine: the instant it is set for and whether it *)
(* is pending, has fired (its callback has run) or was cleared; handle is  *)
(* this.timer.  What nextWakeAtMs returns is an input of each arming, and  *)
(* so is whether a callback outside a tick finds a job due.                *)
(***************************************************************************)
MaxTimeouts == 4

clearTimeoutForgetting(ts, h) == ts

\* clearTimeout(this.timer): a pending timeout is cancelled, one that has
\* fired is left as it is.
clearTimeout(ts, h) ==
    IF h # 0 /\ ts[h].state = "pending"
    THEN [ts EXCEPT ![h].state = "cleared"]
    ELSE ts

setTimeout(ts, at) == Append(ts, [at |-> at, state |-> "pending"])

\* armTimer (service.ts 178-198) on the timeouts: the new timeouts and the
\* new this.timer.
armTimerHandle(ts, h, isStarted, nextAt, t) ==
    IF ~isStarted \/ nextAt = None
    THEN [timeouts |-> clearTimeout(ts, h), handle |-> 0]
    ELSE [timeouts |-> setTimeout(clearTimeout(ts, h),
                                  t + Min(Max(nextAt - t, 0), MAX_TIMER_DELAY_MS)),
          handle |-> Len(ts) + 1]

NextWakes(t) == {None, t + 1000, t + 90000} \cup (IF t >= 1000 THEN {t - 1000} ELSE {})

\* start() (service.ts 46-75): started is set and, at the end, armTimer runs.
startArms(nextAt) ==
    /\ ~started
    /\ timeouts = <<>>
    /\ started' = TRUE
    /\ timeouts' = armTimerHandle(timeouts, handle, TRUE, nextAt, now).timeouts
    /\ handle' = armTimerHandle(timeouts, handle, TRUE, nextAt, now).handle
    /\ UNCHANGED <<now, epoch, crashes, nextId, disk, jobs, timer, running,
                   startPc, missed, tickPc, dueJobs, execs, crud, fired,
                   bootSeq, interrupted, consumed, errorRuns, refused,
                   storeVars, calcVars, queueVars, sessionVars>>

\* create / remove after their persist (service.ts 119, 142): armTimer.
crudArms(nextAt) ==
    /\ Len(timeouts) < MaxTimeouts
    /\ timeouts # <<>>
    /\ timeouts' = armTimerHandle(timeouts, handle, started, nextAt, now).timeouts
    /\ handle' = armTimerHandle(timeouts, handle, started, nextAt, now).handle
    /\ UNCHANGED <<now, epoch, crashes, nextId, disk, jobs, timer, running,
                   started, startPc, missed, tickPc, dueJobs, execs, crud,
                   fired, bootSeq, interrupted, consumed, errorRuns, refused,
                   storeVars, calcVars, queueVars, sessionVars>>

\* The callback of a timeout runs onTimer (service.ts 193-197, 212-247): in
\* a tick the busy branch, outside a tick with nothing due the finally
\* block at once, with a job due the tick begins.
timeoutFires(k, anyDue, nextAt) ==
    /\ k \in 1..Len(timeouts)
    /\ Len(timeouts) < MaxTimeouts
    /\ timeouts[k].state = "pending"
    /\ now >= timeouts[k].at
    /\ LET ran == [timeouts EXCEPT ![k].state = "fired"]
       IN  IF running
           THEN /\ timeouts' = setTimeout(clearTimeout(ran, handle),
                                          now + MAX_TIMER_DELAY_MS)
                /\ handle' = Len(timeouts) + 1
                /\ UNCHANGED running
           ELSE IF anyDue
           THEN /\ running' = TRUE
                /\ timeouts' = ran
                /\ UNCHANGED handle
           ELSE /\ timeouts' = armTimerHandle(ran, handle, started, nextAt,
                                              now).timeouts
                /\ handle' = armTimerHandle(ran, handle, started, nextAt,
                                            now).handle
                /\ UNCHANGED running
    /\ UNCHANGED <<now, epoch, crashes, nextId, disk, jobs, timer, started,
                   startPc, missed, tickPc, dueJobs, execs, crud, fired,
                   bootSeq, interrupted, consumed, errorRuns, refused,
                   storeVars, calcVars, queueVars, sessionVars>>

\* The finally block of a tick (service.ts 244-247).
tickEnds(nextAt) ==
    /\ running
    /\ Len(timeouts) < MaxTimeouts
    /\ running' = FALSE
    /\ timeouts' = armTimerHandle(timeouts, handle, started, nextAt, now).timeouts
    /\ handle' = armTimerHandle(timeouts, handle, started, nextAt, now).handle
    /\ UNCHANGED <<now, epoch, crashes, nextId, disk, jobs, timer, started,
                   startPc, missed, tickPc, dueJobs, execs, crud, fired,
                   bootSeq, interrupted, consumed, errorRuns, refused,
                   storeVars, calcVars, queueVars, sessionVars>>

\* stop() (service.ts 79-86).
stopClears ==
    /\ started
    /\ timeouts' = clearTimeout(timeouts, handle)
    /\ handle' = 0
    /\ started' = FALSE
    /\ UNCHANGED <<now, epoch, crashes, nextId, disk, jobs, timer, running,
                   startPc, missed, tickPc, dueJobs, execs, crud, fired,
                   bootSeq, interrupted, consumed, errorRuns, refused,
                   storeVars, calcVars, queueVars, sessionVars>>

\* Time passes until the instant a pending timeout is set for.
timePasses(k) ==
    /\ k \in 1..Len(timeouts)
    /\ timeouts[k].state = "pending"
    /\ timeouts[k].at > now
    /\ now' = timeouts[k].at
    /\ UNCHANGED <<epoch, crashes, nextId, disk, jobs, timer, running, started,
                   startPc, missed, tickPc, dueJobs, execs, crud, fired,
                   bootSeq, interrupted, consumed, errorRuns, refused,
                   storeVars, calcVars, queueVars, timerVars, sessionVars>>

TimerNext ==
    \/ \E nextAt \in NextWakes(now) : startArms(nextAt)
    \/ \E nextAt \in NextWakes(now) : crudArms(nextAt)
    \/ \E k \in 1..MaxTimeouts, anyDue \in BOOLEAN, nextAt \in NextWakes(now) :
          timeoutFires(k, anyDue, nextAt)
    \/ \E nextAt \in NextWakes(now) : tickEnds(nextAt)
    \/ stopClears
    \/ \E k \in 1..MaxTimeouts : timePasses(k)

TimerSpec == Init /\ [][TimerNext]_vars

(***************************************************************************)
(* Commands from several chats: jobs are created by either chat, and       *)
(* removeJob and forceRunJob are called by either chat with any of the     *)
(* prefixes, matching or not.  The clock stands still, so no job comes     *)
(* due.                                                                    *)
(***************************************************************************)
IdPrefixes == {<<>>, <<1>>, <<1, 1>>, <<1, 2>>, <<1, 1, 0>>, <<2>>}

CrudNext ==
    \/ start(0)
    \/ runMissedJobs
    \/ \E chatId \in Chats :
          nextId < MaxCrudJobs /\ crud < MaxCrud
          /\ createFromNaturalLanguage(chatId, "every 1 minutes", "recurring")
    \/ \E chatId \in Chats, idPrefix \in IdPrefixes :
          crud < MaxCrud /\ removeJob(chatId, idPrefix)
    \/ crudPersisted
    \/ \E chatId \in Chats, idPrefix \in IdPrefixes :
          ForcedInFlight < MaxForce /\ forceRunJob(chatId, idPrefix)
    \/ \E i \in ExecSlots, status \in {"ok", "error"} :
          MayReturn(i, status, MaxPairErrors) /\ executorReturns(i, status)
    \/ \E i \in ExecSlots : executeJobPersisted(i)

CrudSpec == Init /\ [][CrudNext]_vars

(***************************************************************************)
(* The per-chat queue (src/src/session/queue.ts).  A promise is pending,   *)
(* fulfilled or rejected, with the value or the reason it settled with; a  *)
(* task's own result carries the number of its enqueue call, Undefined is  *)
(* what a handler returning nothing gives.  tasks[k] is the k-th enqueue   *)
(* call: the chat, the tracked promise it chained on (prior, 0 for         *)
(* Promise.resolve()), how far it is, and its promises chained and         *)
(* tracked.  queues[chatId] is the call whose tracked promise the Map      *)
(* holds for the chat, 0 for no entry.  Callbacks of settled promises run  *)
(* as separate steps, so anything may come between them.                   *)
(***************************************************************************)
MaxTasks == 3
Undefined == 0

Pending == [state |-> "pending", value |-> Undefined]
Fulfilled(value) == [state |-> "fulfilled", value |-> value]
Rejected(reason) == [state |-> "rejected", value |-> reason]

\* promise.catch(() => {}) once promise has settled (queue.ts 13, 16).
catchNothing(promise) ==
    IF promise.state = "rejected" THEN Fulfilled(Undefined) ELSE promise

\* What enqueue hands to its caller (queue.ts 23); the tracked promise instead.
returnedTracked(task) == task.tracked
returned(task) == task.chained

(***************************************************************************)
(* enqueue (queue.ts 11-24): the synchronous part.                         *)
(***************************************************************************)
enqueue(chatId) ==
    /\ Len(tasks) < MaxTasks
    /\ tasks' = Append(tasks, [chatId |-> chatId, prior |-> queues[chatId],
                               phase |-> "queued", chained |-> Pending,
                               tracked |-> Pending])
    /\ queues' = [queues EXCEPT ![chatId] = Len(tasks) + 1]
    /\ UNCHANGED <<disk, engineVars, storeVars, calcVars, timerVars, sessionVars>>

(***************************************************************************)
(* prior.catch(() => {}).then(task) (queue.ts 13): the task is called once *)
(* the promise chained on has settled, whichever way.                      *)
(***************************************************************************)
taskStarts(k) ==
    /\ k \in 1..Len(tasks)
    /\ tasks[k].phase = "queued"
    /\ LET prior == IF tasks[k].prior = 0 THEN Fulfilled(Undefined)
                    ELSE tasks[tasks[k].prior].tracked
       IN  catchNothing(prior).state = "fulfilled"
    /\ tasks' = [tasks EXCEPT ![k].phase = "running"]
    /\ UNCHANGED <<queues, disk, engineVars, storeVars, calcVars, timerVars, sessionVars>>

(***************************************************************************)
(* The promise the task returned settles (or the task threw), and chained  *)
(* with it (queue.ts 13).                                                  *)
(***************************************************************************)
taskSettles(k, rejects) ==
    /\ k \in 1..Len(tasks)
    /\ tasks[k].phase = "running"
    /\ tasks' = [tasks EXCEPT ![k].phase = "settled",
                              ![k].chained = IF rejects THEN Rejected(k)
                                             ELSE Fulfilled(k)]
    /\ UNCHANGED <<queues, disk, engineVars, storeVars, calcVars, timerVars, sessionVars>>

(***************************************************************************)
(* chained.catch(() => {}).finally(...) (queue.ts 15-21): the entry of the *)
(* chat is deleted if it still is this call's, and tracked settles.        *)
(***************************************************************************)
trackedSettles(k) ==
    /\ k \in 1..Len(tasks)
    /\ tasks[k].phase = "settled"
    /\ tasks' = [tasks EXCEPT ![k].phase = "done",
                              ![k].tracked = catchNothing(tasks[k].chained)]
    /\ queues' = IF queues[tasks[k].chatId] = k
                 THEN [queues EXCEPT ![tasks[k].chatId] = 0]
                 ELSE queues
    /\ UNCHANGED <<disk, engineVars, storeVars, calcVars, timerVars, sessionVars>>

QueueNext ==
    \/ \E chatId \in Chats : enqueue(chatId)
    \/ \E k \in 1..MaxTasks : taskStarts(k)
    \/ \E k \in 1..MaxTasks, rejects \in BOOLEAN : taskSettles(k, rejects)
    \/ \E k \in 1..MaxTasks : trackedSettles(k)

QueueSpec == Init /\ [][QueueNext]_vars

(***************************************************************************)
(* The chat sessions (src/src/session/manager.ts, store.ts).  sessions is  *)
(* what sessions.json holds, per chat, NoSession for no entry.  calls[k]   *)
(* is the k-th call of sendMessage or newSession: its chat, the session    *)
(* object it holds, the store object its putSession loaded, the state of   *)
(* the child process it spawned, and how far it is.  For a newSession call *)
(* inflight and finished are the calls of its chat that were being         *)
(* processed and that had returned when it was called.  putSession is a    *)
(* read of the file, an assignment to the object read, and a write of the  *)
(* whole object, with awaits between the read and the write.               *)
(***************************************************************************)
MaxCalls == 3

\* crypto.randomUUID() in call k, and a session id the CLI reports itself.
randomUUID(k) == k
ClaudeId(k) == 100 + k

\* The calls of sendMessage of a chat that sit in its queue or run.
sendsAhead(cs, k) ==
    {j \in 1..(k - 1) : /\ cs[j].kind = "send"
                        /\ cs[j].chatId = cs[k].chatId
                        /\ cs[j].pc # "done"}

\* store.ts 46-49.
getSession(chatId) == sessions[chatId]

\* store.ts 55-56: the file is read and the entry of the chat assigned.
putSessionLoads(session, chatId) == [sessions EXCEPT ![chatId] = session]

\* manager.ts 28-36 and 95-103.
freshSession(k) == [sessionId |-> randomUUID(k), status |-> "idle",
                    messageCount |-> 0]

\* manager.ts 51-53.
markRunningSession(session) ==
    [session EXCEPT !.status = "running", !.messageCount = @ + 1]

\* sendMessage (manager.ts 45-46): the task is handed to the queue of the
\* chat.
sendMessage(chatId) ==
    /\ Len(calls) < MaxCalls
    /\ calls' = Append(calls, [kind |-> "send", chatId |-> chatId,
                              pc |-> "queued", session |-> NoSession,
                              store |-> sessions, proc |-> "none",
                              inflight |-> {}, finished |-> {}])
    /\ UNCHANGED <<sessions, disk, engineVars, storeVars, calcVars, queueVars,
                   timerVars>>

\* The task runs once the calls enqueued before it for the chat are over
\* (queue.ts 11-24), and getSession of ensureSession has read the file
\* (manager.ts 24-26, 47): an existing session is marked as running and
\* putSession is called for it (48-54), a missing one is made and
\* putSession is called for it (28-37).
ensureSession(k) ==
    /\ k \in 1..Len(calls)
    /\ calls[k].kind = "send"
    /\ calls[k].pc = "queued"
    /\ sendsAhead(calls, k) = {}
    /\ LET existing == getSession(calls[k].chatId)
       IN  calls' = IF existing # NoSession
                    THEN [calls EXCEPT ![k].session = markRunningSession(existing),
                                       ![k].pc = "markLoad"]
                    ELSE [calls EXCEPT ![k].session = freshSession(k),
                                       ![k].pc = "ensureLoad"]
    /\ UNCHANGED <<sessions, disk, engineVars, storeVars, calcVars, queueVars,
                   timerVars>>

\* putSession after loadSessions (store.ts 55-56).
putSessionLoaded(k) ==
    /\ k \in 1..Len(calls)
    /\ calls[k].pc \in {"ensureLoad", "markLoad", "endLoad", "newLoad"}
    /\ calls' = [calls EXCEPT
          ![k].store = putSessionLoads(calls[k].session, calls[k].chatId),
          ![k].pc = CASE calls[k].pc = "ensureLoad" -> "ensureSave"
                      [] calls[k].pc = "markLoad" -> "markSave"
                      [] calls[k].pc = "endLoad" -> "endSave"
                      [] calls[k].pc = "newLoad" -> "newSave"]
    /\ UNCHANGED <<sessions, disk, engineVars, storeVars, calcVars, queueVars,
                   timerVars>>

\* putSession after saveSessions (store.ts 57, 30-41): the file is the
\* object loaded.  The caller goes on: ensureSession returns and the session
\* is marked (manager.ts 38, 48-54), runClaude spawns the process
\* (manager.ts 57; claude-cli.ts 130, 165), or the call returns.
putSessionSaved(k) ==
    /\ k \in 1..Len(calls)
    /\ calls[k].pc \in {"ensureSave", "markSave", "endSave", "newSave"}
    /\ sessions' = calls[k].store
    /\ calls' = CASE calls[k].pc = "ensureSave" ->
                       [calls EXCEPT ![k].session = markRunningSession(@),
                                     ![k].pc = "markLoad"]
                  [] calls[k].pc = "markSave" ->
                       [calls EXCEPT ![k].pc = "run", ![k].proc = "tracked"]
                  [] OTHER -> [calls EXCEPT ![k].pc = "done"]
    /\ UNCHANGED <<disk, engineVars, storeVars, calcVars, queueVars, timerVars>>

\* runClaude settles (claude-cli.ts 282-325): resolved with the session id
\* it was given or with the one the CLI reported (manager.ts 68-74), or
\* rejected (79-80).  Either way the session is idle and putSession is
\* called for it.
runClaudeSettles(k, outcome) ==
    /\ k \in 1..Len(calls)
    /\ calls[k].pc = "run"
    /\ calls' = [calls EXCEPT
          ![k].session = [@ EXCEPT !.status = "idle",
                                   !.sessionId = IF outcome = "reported"
                                                 THEN ClaudeId(k) ELSE @],
          ![k].proc = "none",
          ![k].pc = "endLoad"]
    /\ UNCHANGED <<sessions, disk, engineVars, storeVars, calcVars, queueVars,
                   timerVars>>

\* cancelProcess (process-manager.ts 28-42): the process tracked for the
\* chat is killed and forgotten.
cancelProcess(cs, chatId) ==
    [j \in 1..Len(cs) |->
        IF cs[j].chatId = chatId /\ cs[j].proc = "tracked"
        THEN [cs[j] EXCEPT !.proc = "killed"]
        ELSE cs[j]]

\* newSession (manager.ts 91-104): the synchronous part, up to the read of
\* the file in putSession.
newSession(chatId) ==
    /\ Len(calls) < MaxCalls
    /\ LET k == Len(calls) + 1
           ofChat == {j \in 1..Len(calls) : calls[j].chatId = chatId}
       IN  calls' = Append(cancelProcess(calls, chatId),
                           [kind |-> "new", chatId |-> chatId,
                            pc |-> "newLoad", session |-> freshSession(k),
                            store |-> sessions, proc |-> "none",
                            inflight |-> {j \in ofChat :
                                            /\ calls[j].kind = "send"
                                            /\ calls[j].pc \notin {"queued", "done"}},
                            finished |-> {j \in ofChat : calls[j].pc = "done"}])
    /\ UNCHANGED <<sessions, disk, engineVars, storeVars, calcVars, queueVars,
                   timerVars>>

SessionNext ==
    \/ \E chatId \in Chats : sendMessage(chatId)
    \/ \E k \in 1..MaxCalls : ensureSession(k)
    \/ \E k \in 1..MaxCalls : putSessionLoaded(k)
    \/ \E k \in 1..MaxCalls : putSessionSaved(k)
    \/ \E k \in 1..MaxCalls, outcome \in {"given", "reported", "rejected"} :
          runClaudeSettles(k, outcome)
    \/ \E chatId \in Chats : newSession(chatId)

SessionSpec == Init /\ [][SessionNext]_vars

(***************************************************************************)
(* The calculator and the backoff ladder called on their own.  The         *)
(* arguments are drawn at the beginning and one call is made.  For a cron  *)
(* schedule the evaluator is the environment: it may answer the query      *)
(* from nowMs (first) and the query from the next whole second (retry)     *)
(* with any instant, with null or with an invalid Date.                    *)
(***************************************************************************)
MaxCalcNow == 12
MaxCalcCount == 8

CalcNows == 0..MaxCalcNow \cup {999, 1000, 1001, 1999, 2000, 2001, 2999, 3000}
CalcEverySchedules ==
    {EverySchedule(everyMs, anchorMs) :
        everyMs \in {0, 1, 3, 1000}, anchorMs \in {None, -5, 0, 2, 1000}}
CalcAtSchedules == {AtSchedule(at) : at \in {None, 0, 5, 1000}}
CalcCronSchedules == {CronExprSchedule(expr) : expr \in {"", "* * * * *"}}
CalcCronNows == {1000, 1500, 1999}
CalcAnswers(nowMs) ==
    {None, NotFinite, nowMs - 1000, nowMs - 1, nowMs, nowMs + 1, nowMs + 60000}
CalcCounts == (0 - 2)..MaxCalcCount

CalcCalls ==
    {[CalcNone EXCEPT !.pc = "in", !.fn = "computeNextRunAtMs",
                      !.schedule = schedule, !.nowMs = nowMs] :
        schedule \in CalcEverySchedules \cup CalcAtSchedules, nowMs \in CalcNows}
    \cup
    UNION {{[CalcNone EXCEPT !.pc = "in", !.fn = "computeNextRunAtMs",
                             !.schedule = schedule, !.nowMs = nowMs,
                             !.first = first, !.retry = retry] :
               schedule \in CalcCronSchedules,
               first \in CalcAnswers(nowMs), retry \in CalcAnswers(nowMs)} :
           nowMs \in CalcCronNows}
    \cup
    {[CalcNone EXCEPT !.pc = "in", !.fn = "errorBackoffMs", !.count = count] :
        count \in CalcCounts}

\* cron.nextRun as the environment answers it in this call.
CalcEvaluator == [t \in Nat |-> IF t = calc.nowMs THEN calc.first ELSE calc.retry]

CalcInit ==
    /\ now = 0
    /\ epoch = 0
    /\ crashes = 0
    /\ nextId = 0
    /\ disk = NoFile
    /\ jobs = <<>>
    /\ timer = None
    /\ running = FALSE
    /\ started = FALSE
    /\ startPc = "init"
    /\ missed = <<>>
    /\ tickPc = "idle"
    /\ dueJobs = <<>>
    /\ execs = <<>>
    /\ crud = 0
    /\ fired = [i \in JobIds |-> 0]
    /\ bootSeq = <<>>
    /\ interrupted = {}
    /\ consumed = {}
    /\ errorRuns = [i \in JobIds |-> 0]
    /\ StoreIdle
    /\ refused = 0
    /\ calc \in CalcCalls
    /\ QueueIdle
    /\ TimersIdle
    /\ SessionsIdle

callComputeNextRunAtMs ==
    /\ calc.pc = "in"
    /\ calc.fn = "computeNextRunAtMs"
    /\ calc' = [calc EXCEPT !.pc = "out",
                            !.result = computeNextRunAtMsWith(CalcEvaluator,
                                           calc.schedule, calc.nowMs)]
    /\ UNCHANGED <<disk, engineVars, storeVars, queueVars, timerVars, sessionVars>>

callErrorBackoffMs ==
    /\ calc.pc = "in"
    /\ calc.fn = "errorBackoffMs"
    /\ calc' = [calc EXCEPT !.pc = "out", !.result = errorBackoffMs(calc.count)]
    /\ UNCHANGED <<disk, engineVars, storeVars, queueVars, timerVars, sessionVars>>

CalcNext ==
    \/ callComputeNextRunAtMs
    \/ callErrorBackoffMs

CalcSpec == CalcInit /\ [][CalcNext]_vars

\* The executor call of execs[i] settles with status st in this step.
ReturnStep(i, st) ==
    /\ i \in 1..Len(execs)
    /\ execs[i].phase = "run"
    /\ execs' = [execs EXCEPT ![i] = [@ EXCEPT !.phase = "persist", !.status = st]]

\* The executor calls in flight, and those of one job.
CallsInFlight == {i \in 1..Len(execs) : execs[i].phase = "run"}
CallsInFlightOf(id) == {i \in CallsInFlight : execs[i].job = id}

(***************************************************************************)
(* C1: for every job id at most one execution of that job is in flight at  *)
(* a time, whatever the interleaving of ticks, startup recovery, forced    *)
(* runs and create/remove calls.  The code breaks this: forceRunJob enters *)
(* executeJob without looking at runningAtMs.                              *)
(***************************************************************************)
C1_OneExecutionPerJob ==
    \A id \in JobIds : Cardinality(CallsInFlightOf(id)) <= 1

(***************************************************************************)
(* C2: at any time at most one executor call is in flight across all jobs  *)
(* of the engine.  The code breaks this: the call a forced run starts is   *)
(* not covered by the running flag of the tick.                            *)
(***************************************************************************)
C2_OneExecutorCall ==
    Cardinality(CallsInFlight) <= 1

(***************************************************************************)
(* C3: while the engine is started, every enabled job whose nextRunAtMs is *)
(* at or before the current time is eventually dispatched (or the job is   *)
(* gone, or the process has ended).  The code breaks this: a job carrying  *)
(* a running marker not older than two hours after a restart is skipped by *)
(* every tick, and nothing clears the marker while the process runs.       *)
(***************************************************************************)
C3_Due(id) ==
    /\ started
    /\ HasJob(jobs, id)
    /\ JobOf(jobs, id).enabled
    /\ JobOf(jobs, id).nextRunAtMs # None
    /\ JobOf(jobs, id).nextRunAtMs <= now

C3_Dispatched(id) ==
    \/ ~started
    \/ ~HasJob(jobs, id)
    \/ \E i \in 1..Len(execs) : execs[i].job = id

\* C3: every due job of a started engine is eventually dispatched.
C3_DueJobIsDispatched ==
    \A id \in JobIds : C3_Due(id) ~> C3_Dispatched(id)

(***************************************************************************)
(* C4: when the process stops during a tick after the due jobs were marked *)
(* running and persisted, every job so marked is executed again by the     *)
(* next start(), for any length of downtime.  The code breaks this for a   *)
(* downtime of at most two hours: the marker is kept and the recovery      *)
(* filter skips the job.                                                   *)
(***************************************************************************)
C4_MarkedJobsRunAgain ==
    (startPc = "done" /\ crashes > 0) =>
        interrupted \subseteq {bootSeq[k] : k \in 1..Len(bootSeq)}

(***************************************************************************)
(* C5: during start() every enabled job without a running marker after     *)
(* stale-run clearing whose nextRunAtMs is <= now (an At job that has a    *)
(* lastStatus excepted) is executed exactly once, one at a time in         *)
(* collection order, and all these executions have completed before the    *)
(* timer is armed for the first time.                                      *)
(***************************************************************************)
C5_Selected(j) ==
    /\ j.enabled
    /\ j.runningAtMs = None
    /\ j.nextRunAtMs # None
    /\ j.nextRunAtMs <= now
    /\ (j.schedule.kind = "at" => j.lastStatus = "none")

C5_Eligible ==
    LET sel == SelectSeq(jobs, C5_Selected)
    IN  [k \in 1..Len(sel) |-> sel[k].id]

C5_Selection ==
    (startPc = "persist" /\ startPc' \in {"missed", "done"}) =>
        /\ (C5_Eligible = <<>>) <=> (startPc' = "done")
        /\ startPc' = "missed" =>
              /\ missed' = C5_Eligible
              /\ bootSeq' = <<Head(C5_Eligible)>>
        /\ startPc' = "done" => bootSeq' = <<>> /\ execs' = <<>>

C5_OneAfterTheOther ==
    (startPc = "missed" /\ startPc' \in {"missed", "done"} /\ missed' # missed) =>
        /\ CallsInFlight = {}
        /\ missed' = Tail(missed)
        /\ startPc' = "missed" => bootSeq' = Append(bootSeq, Head(missed'))
        /\ (startPc' = "done") <=> (missed' = <<>>)
        /\ startPc' = "done" => bootSeq' = bootSeq /\ execs' = <<>>

C5_DuringRecovery ==
    /\ startPc \in {"persist", "missed"} => timer = None
    /\ startPc = "missed" =>
          /\ missed # <<>>
          /\ Len(execs) = 1
          /\ execs[1].origin = "start"
          /\ execs[1].job = Head(missed)
          /\ bootSeq # <<>>
          /\ bootSeq[Len(bootSeq)] = Head(missed)
    /\ \A a, b \in 1..Len(bootSeq) : bootSeq[a] = bootSeq[b] => a = b

\* C5: startup recovery runs every eligible job once, in order, before the timer.
C5_StartupRecovery ==
    /\ []C5_DuringRecovery
    /\ [][C5_Selection /\ C5_OneAfterTheOther]_vars

C5_Witness ==
    /\ startPc = "done"
    /\ crashes > 0
    /\ Len(bootSeq) = 2
    /\ timer # None

(***************************************************************************)
(* C6: start() clears runningAtMs of exactly the loaded jobs whose marker  *)
(* is more than two hours older than the start time; a marker at most two  *)
(* hours old stays, and no other field of any job is changed by the step   *)
(* (a missing nextRunAtMs of an enabled job is filled in right after it).  *)
(***************************************************************************)
C6_StaleClearing ==
    [][(startPc = "init" /\ startPc' = "persist") =>
          LET stored == storedJobs
          IN
          /\ Len(jobs') = Len(stored)
          /\ \A i \in 1..Len(stored) :
                LET old == stored[i]
                    new == jobs'[i]
                    stale == old.runningAtMs # None
                             /\ now' - old.runningAtMs > 2 * 3600000
                IN  /\ new.runningAtMs = IF stale THEN None ELSE old.runningAtMs
                    /\ [new EXCEPT !.runningAtMs = old.runningAtMs,
                                   !.nextRunAtMs = old.nextRunAtMs] = old
                    /\ (old.nextRunAtMs # None \/ ~old.enabled)
                          => new.nextRunAtMs = old.nextRunAtMs]_vars

C6_Witness ==
    /\ startPc = "persist"
    /\ LET stored == storedJobs
       IN  \E i \in 1..Len(stored) :
              /\ stored[i].runningAtMs # None
              /\ now - stored[i].runningAtMs = 2 * 3600000 + 1
              /\ jobs[i].runningAtMs = None

(***************************************************************************)
(* C7: after an At job's run reached a terminal result the job is disabled *)
(* with nextRunAtMs absent, and no later tick or startup recovery executes *)
(* it again.  The code breaks the second half: a tick that has the job in  *)
(* its due list executes it after a forced run of it has finished.         *)
(***************************************************************************)
C7_OneShotFiresOnce ==
    /\ [](\A id \in consumed : HasJob(jobs, id) =>
             /\ ~JobOf(jobs, id).enabled
             /\ JobOf(jobs, id).nextRunAtMs = None)
    /\ [][\A id \in consumed : fired'[id] = fired[id]]_vars

(***************************************************************************)
(* C8: result application removes a job from the collection exactly when   *)
(* its schedule is At, deleteAfterRun is true and the status is ok; an At  *)
(* job that stays is disabled, and a recurring job is never removed by a   *)
(* run.                                                                    *)
(***************************************************************************)
C8_RemovalRule ==
    [][\A i \in ExecSlots, st \in {"ok", "error"} :
          (ReturnStep(i, st) /\ HasJob(jobs, execs[i].job)) =>
              LET id == execs[i].job
                  j == JobOf(jobs, id)
              IN  /\ ~HasJob(jobs', id)
                        <=> (j.schedule.kind = "at" /\ j.deleteAfterRun /\ st = "ok")
                  /\ (j.schedule.kind = "at" /\ HasJob(jobs', id))
                        => ~JobOf(jobs', id).enabled
                  /\ Ids(jobs') \subseteq Ids(jobs)
                  /\ Ids(jobs) \ Ids(jobs') \subseteq {id}]_vars

C8_Witness ==
    /\ \E i \in 1..Len(execs) :
          /\ execs[i].phase = "persist"
          /\ execs[i].status = "ok"
          /\ execs[i].job \in consumed
          /\ ~HasJob(jobs, execs[i].job)
    /\ \E i \in 1..Len(jobs) :
          /\ jobs[i].schedule.kind = "at"
          /\ ~jobs[i].deleteAfterRun
          /\ jobs[i].lastStatus = "ok"
          /\ ~jobs[i].enabled

C9_Boundary(t0, endedAt) ==
    LET x == endedAt - t0
        k == IF x % 60000 = 0 THEN x \div 60000 ELSE (x \div 60000) + 1
    IN  t0 + 60000 * (IF k >= 1 THEN k ELSE 1)

C9_NoEarlyDispatch ==
    \A i \in 1..Len(jobs) :
        (jobs[i].schedule.kind = "every" /\ now < jobs[i].schedule.anchorMs + 60000)
            => fired[jobs[i].id] = 0

C9_Occurrences(seq, id) == Cardinality({k \in 1..Len(seq) : seq[k] = id})

C9_TimerAfterCreate ==
    (crud' < crud /\ startPc' = "done") =>
        \A i \in 1..Len(jobs) :
            (jobs[i].schedule.kind = "every" /\ fired[jobs[i].id] = 0)
                => /\ timer' # None
                   /\ timer' >= now
                   /\ timer' <= Max(now, jobs[i].schedule.anchorMs + 60000)
                   /\ jobs[i].enabled
                   /\ jobs[i].nextRunAtMs = jobs[i].schedule.anchorMs + 60000

C9_DispatchAtBoundary ==
    (tickPc = "idle" /\ tickPc' = "persist") =>
        /\ \A i \in 1..Len(jobs) :
              (/\ jobs[i].schedule.kind = "every"
               /\ fired[jobs[i].id] = 0
               /\ now >= jobs[i].schedule.anchorMs + 60000)
              => C9_Occurrences(dueJobs', jobs[i].id) = 1
        /\ \A k \in 1..Len(dueJobs') :
              /\ HasJob(jobs, dueJobs'[k])
              /\ JobOf(jobs, dueJobs'[k]).schedule.kind = "every"
                    => now >= JobOf(jobs, dueJobs'[k]).schedule.anchorMs + 60000

C9_NextAfterOk ==
    \A i \in ExecSlots :
        (/\ ReturnStep(i, "ok")
         /\ HasJob(jobs, execs[i].job)
         /\ JobOf(jobs, execs[i].job).schedule.kind = "every")
        => LET t0 == JobOf(jobs, execs[i].job).schedule.anchorMs
               next == JobOf(jobs', execs[i].job).nextRunAtMs
           IN  /\ next = C9_Boundary(t0, now)
               /\ (next = t0 + 120000) <=> (t0 + 60000 < now /\ now <= t0 + 120000)

C10_Backoff(n) ==
    CASE n = 1 -> 30000
      [] n = 2 -> 60000
      [] n = 3 -> 300000
      [] n = 4 -> 900000
      [] OTHER -> 3600000

C10_Natural(schedule, t) ==
    IF schedule.kind = "every"
    THEN C9_Boundary(schedule.anchorMs, t)
    ELSE CHOOSE m \in {(t \div 60000) * 60000 + k * 60000 : k \in 0..60} :
            /\ m > t
            /\ m % CronPeriod(schedule.expr) = 0
            /\ \A k \in 1..60 :
                  (m - k * 60000 > t) => (m - k * 60000) % CronPeriod(schedule.expr) # 0

\* C10: after an error nextRunAtMs = max(natural next run, endedAt + backoff).
C10_ErrorBackoff ==
    [][\A i \in ExecSlots :
          (/\ ReturnStep(i, "error")
           /\ HasJob(jobs, execs[i].job)
           /\ JobOf(jobs, execs[i].job).schedule.kind # "at"
           /\ JobOf(jobs, execs[i].job).enabled)
          => LET j == JobOf(jobs, execs[i].job)
                 new == JobOf(jobs', execs[i].job)
                 n == (IF j.consecutiveErrors = None THEN 0
                       ELSE j.consecutiveErrors) + 1
                 natural == C10_Natural(j.schedule, now)
             IN  /\ new.consecutiveErrors = n
                 /\ new.nextRunAtMs = Max(natural, now + C10_Backoff(n))
                 /\ new.nextRunAtMs >= natural
                 /\ (n = 3 /\ j.schedule.kind = "cron" /\ natural - now < 300000)
                       => new.nextRunAtMs = now + 300000]_vars

C10_Witness ==
    \E i \in 1..Len(jobs) :
        /\ jobs[i].schedule.kind = "cron"
        /\ jobs[i].lastStatus = "error"
        /\ jobs[i].consecutiveErrors = 3
        /\ jobs[i].nextRunAtMs = jobs[i].lastRunAtMs + jobs[i].lastDurationMs + 300000
        /\ now = jobs[i].lastRunAtMs + jobs[i].lastDurationMs

(***************************************************************************)
(* C11: when a run of an enabled recurring job ends with ok at endedAt,    *)
(* nextRunAtMs becomes the natural next run for an Every job, and for a    *)
(* Cron job the natural next run raised to at least endedAt + 2000, so a   *)
(* Cron job is never rescheduled less than 2 s after its run ended.        *)
(***************************************************************************)
C11_OkReschedule ==
    [][\A i \in ExecSlots :
          (/\ ReturnStep(i, "ok")
           /\ HasJob(jobs, execs[i].job)
           /\ JobOf(jobs, execs[i].job).schedule.kind # "at"
           /\ JobOf(jobs, execs[i].job).enabled)
          => LET j == JobOf(jobs, execs[i].job)
                 new == JobOf(jobs', execs[i].job)
                 natural == C10_Natural(j.schedule, now)
             IN  /\ j.schedule.kind = "every" => new.nextRunAtMs = natural
                 /\ j.schedule.kind = "cron" =>
                       /\ new.nextRunAtMs =
                             (IF natural >= now + 2000 THEN natural ELSE now + 2000)
                       /\ new.nextRunAtMs >= now + 2000]_vars

C11_Witness ==
    \E i \in 1..Len(jobs) :
        /\ jobs[i].schedule.kind = "cron"
        /\ jobs[i].lastStatus = "ok"
        /\ now = jobs[i].lastRunAtMs + jobs[i].lastDurationMs
        /\ now % 60000 = 59999
        /\ jobs[i].nextRunAtMs = now + 2000

(***************************************************************************)
(* C12 (as stated): at any time consecutiveErrors of a job equals the      *)
(* number of error results of that job since its most recent ok result (or *)
(* since creation).  This fails when the process stops between the         *)
(* application of a result and the end of its save: the new count is lost  *)
(* with the memory and the restarted engine reads the old one.             *)
(***************************************************************************)
C12_Count(j) == IF j.consecutiveErrors = None THEN 0 ELSE j.consecutiveErrors

C12_Recurrence ==
    \A i \in ExecSlots, st \in {"ok", "error"} :
        (ReturnStep(i, st) /\ HasJob(jobs', execs[i].job)) =>
            C12_Count(JobOf(jobs', execs[i].job)) =
                (IF st = "ok" THEN 0
                 ELSE C12_Count(JobOf(jobs, execs[i].job)) + 1)

C12_CountInvariant ==
    \A i \in 1..Len(jobs) :
        crashes = 0 => C12_Count(jobs[i]) = errorRuns[jobs[i].id]

C13_Recurring(j) == j.schedule.kind \in {"every", "cron"}

C13_RemoveStep == crud' = crud + 1 /\ Len(jobs') < Len(jobs)

C13_KeptByEngine ==
    (startPc' # "init" /\ ~C13_RemoveStep) =>
        \A i \in 1..Len(jobs) :
            (C13_Recurring(jobs[i]) /\ jobs[i].enabled) =>
                /\ HasJob(jobs', jobs[i].id)
                /\ JobOf(jobs', jobs[i].id).enabled
                /\ JobOf(jobs', jobs[i].id).schedule = jobs[i].schedule

C13_KeptByStart ==
    (startPc = "init" /\ startPc' = "persist") =>
        LET stored == storedJobs
        IN  \A i \in 1..Len(stored) :
                (C13_Recurring(stored[i]) /\ stored[i].enabled) =>
                    /\ HasJob(jobs', stored[i].id)
                    /\ JobOf(jobs', stored[i].id).enabled

C13_KeptOnDisk ==
    disk' # disk =>
        LET stored == storedJobs
            written == loadSchedulerStore(disk').store.jobs
        IN  \A i \in 1..Len(stored) :
                (C13_Recurring(stored[i]) /\ stored[i].enabled
                 /\ HasJob(jobs, stored[i].id)) =>
                    /\ HasJob(written, stored[i].id)
                    /\ JobOf(written, stored[i].id).enabled

\* C13: recurring jobs are never disabled or removed by the engine itself.
C13_RecurringStaysEnabled ==
    [][C13_KeptByEngine /\ C13_KeptByStart /\ C13_KeptOnDisk]_vars

C13_Witness ==
    \E i \in 1..Len(jobs) :
        /\ C13_Recurring(jobs[i])
        /\ jobs[i].enabled
        /\ jobs[i].consecutiveErrors = 3
        /\ jobs[i].lastStatus = "error"
        /\ jobs[i].runningAtMs = None
        /\ LET stored == storedJobs
           IN  /\ HasJob(stored, jobs[i].id)
               /\ JobOf(stored, jobs[i].id).consecutiveErrors = 3

(***************************************************************************)
(* C14: in every state reached by create, remove, force-run, timer ticks   *)
(* and start from an empty store, no job with enabled = false has a        *)
(* nextRunAtMs, in the collection or in the store file.                    *)
(***************************************************************************)
C14_DisabledHasNoNextRun ==
    /\ \A i \in 1..Len(jobs) : ~jobs[i].enabled => jobs[i].nextRunAtMs = None
    /\ LET stored == storedJobs
       IN  \A i \in 1..Len(stored) :
              ~stored[i].enabled => stored[i].nextRunAtMs = None

C14_Witness ==
    \E i \in 1..Len(jobs) :
        /\ ~jobs[i].enabled
        /\ jobs[i].nextRunAtMs = None
        /\ jobs[i].lastStatus = "error"
        /\ crashes > 0
        /\ startPc = "done"

(***************************************************************************)
(* C15: when the executor call for one due job throws or returns error,    *)
(* the failure is recorded on that job (lastStatus = error, lastError =    *)
(* the message, consecutiveErrors incremented), the tick goes on           *)
(* undisturbed, and every other job of the same due set is still executed  *)
(* in that tick.                                                           *)
(***************************************************************************)
C15_FailureRecorded ==
    \A i \in ExecSlots :
        (ReturnStep(i, "error") /\ HasJob(jobs, execs[i].job)) =>
            /\ HasJob(jobs', execs[i].job)
            /\ LET old == JobOf(jobs, execs[i].job)
                   new == JobOf(jobs', execs[i].job)
               IN  /\ new.lastStatus = "error"
                   /\ new.lastError = "boom"
                   /\ C12_Count(new) = C12_Count(old) + 1
                   /\ new.runningAtMs = None
            /\ UNCHANGED <<tickPc, dueJobs, running, timer, startPc, missed>>

C15_TickExecSaving(es) ==
    {k \in 1..Len(es) : es[k].origin = "tick" /\ es[k].phase = "persist"}

C15_SiblingsRun ==
    (C15_TickExecSaving(execs) # {} /\ C15_TickExecSaving(execs') = {}
     /\ startPc' # "init") =>
        IF Len(dueJobs) > 1
        THEN /\ dueJobs' = Tail(dueJobs)
             /\ tickPc' = "exec"
             /\ running'
             /\ \E k \in 1..Len(execs') :
                   /\ execs'[k].origin = "tick"
                   /\ execs'[k].phase = "run"
                   /\ execs'[k].job = dueJobs[2]
                   /\ execs'[k].startedAt = now
        ELSE /\ dueJobs' = <<>>
             /\ tickPc' = "idle"
             /\ ~running'
             /\ timer' = armTimer(jobs, started, now)

C15_DueSetFixed ==
    (tickPc = "exec" /\ tickPc' = "exec") =>
        \/ dueJobs' = dueJobs
        \/ dueJobs' = Tail(dueJobs)

\* C15: a failed executor call is recorded on its job and leaves the tick running.
C15_FailureStaysInJob ==
    [][C15_FailureRecorded /\ C15_SiblingsRun /\ C15_DueSetFixed]_vars

C15_Witness ==
    /\ tickPc = "exec"
    /\ Len(dueJobs) = 1
    /\ \E k \in 1..Len(execs) :
          /\ execs[k].origin = "tick"
          /\ execs[k].phase = "run"
          /\ execs[k].job = dueJobs[1]
    /\ \E i \in 1..Len(jobs) :
          /\ jobs[i].id # dueJobs[1]
          /\ jobs[i].lastStatus = "error"
          /\ jobs[i].lastError = "boom"
          /\ jobs[i].consecutiveErrors = 1
          /\ jobs[i].lastRunAtMs = now
          /\ fired[jobs[i].id] = 1
          /\ ForcedInFlight = 0

(***************************************************************************)
(* C16: a job whose schedule has no next run (here a Cron job with an      *)
(* empty expression) is never given a nextRunAtMs by the engine and is     *)
(* never fired by the timer, whatever operations follow that do not        *)
(* re-schedule it.  The code breaks this: after a forced run of such a job *)
(* applyJobResult falls back to endedAt + 2000 (ok) or endedAt + backoff   *)
(* (error) when the calculator returns no next run.                        *)
(***************************************************************************)
C16_NeverStaysNever ==
    \A i \in 1..Len(jobs) :
        (jobs[i].schedule.kind = "cron" /\ jobs[i].schedule.expr = "") =>
            /\ jobs[i].nextRunAtMs = None
            /\ fired[jobs[i].id] = 0

(***************************************************************************)
(* C17.  The executor call is awaited inside the tick (service.ts 241-243) *)
(* and a timeout that fires meanwhile leaves through the busy branch       *)
(* (213-221) without looking at any job.                                   *)
(***************************************************************************)
C17_Idle == started /\ startPc = "done" /\ crud = 0

C17_Pending(job) ==
    /\ job.enabled
    /\ job.nextRunAtMs # None
    /\ job.runningAtMs = None

C17_CallInFlightSince(t) ==
    \E k \in 1..Len(execs) :
        /\ execs[k].origin = "tick"
        /\ execs[k].phase = "run"
        /\ execs[k].startedAt <= t

\* C17: while the engine is started and no create or remove is in flight,
\* an enabled job that is not marked running and whose nextRunAtMs has
\* come is evaluated by a tick within MAX_TIMER_DELAY_MS; observed where
\* the time since nextRunAtMs has passed during one executor call of a
\* tick, so that no store write accounts for it.
C17_EvaluatedWithinCeiling ==
    C17_Idle =>
        \A i \in 1..Len(jobs) :
            (C17_Pending(jobs[i]) /\ C17_CallInFlightSince(jobs[i].nextRunAtMs)) =>
                now <= jobs[i].nextRunAtMs + MAX_TIMER_DELAY_MS

(***************************************************************************)
(* C18.  The stores whose save may have been called: the values handed to  *)
(* saveSchedulerStore, what load() returns for the files found at the      *)
(* beginning, and what load() returns for a file saved from one of these.  *)
(***************************************************************************)
C18_HandedOver ==
    StoreValues
    \cup {loadSchedulerStore(f).store :
            f \in {g \in InitialFiles : loadSchedulerStore(g).threw = ""}}

C18_SavedStores ==
    C18_HandedOver
    \cup {loadSchedulerStore(saveSchedulerStore(store)).store :
            store \in C18_HandedOver}

\* C18: at every point of every save, with saves overlapping, operations
\* failing and the process ending between any two steps, the canonical
\* file is the file found at the beginning or the complete text of a store
\* handed to saveSchedulerStore, never a part of a text.
C18_CanonicalComplete ==
    \/ disk \in InitialFiles
    \/ \E store \in C18_SavedStores : disk = saveSchedulerStore(store)

\* Two saves overlap: one has written a part of its temporary file, the
\* other has replaced the canonical file and written a part of the backup.
C18_Witness ==
    \E i, j \in 1..Len(saves) :
        /\ i # j
        /\ saves[i].pc = "write"
        /\ tmpFiles[saves[i].id].text # <<>>
        /\ tmpFiles[saves[i].id].text # saves[i].json
        /\ saves[j].pc = "copying"
        /\ backup.text # saves[j].src
        /\ disk = TextFile(saves[j].json)

(***************************************************************************)
(* C20.  What a user of the store observes of it (service.ts 127-130,      *)
(* 163-165): the version, the jobs, and the timezone of each chat, an      *)
(* absent timezones member being read as no entry.                         *)
(***************************************************************************)
C20_Observable(store) ==
    [version |-> store.version, jobs |-> store.jobs,
     timezones |-> store.timezones.entries]

C20_LoadAfterSave(i) ==
    saveRenamed(i) =>
        /\ loadSchedulerStore(disk').threw = ""
        /\ C20_Observable(loadSchedulerStore(disk').store)
             = C20_Observable(saves[i].store)

C20_SaveAfterLoad(i) ==
    (saveRenamed(i) /\ saves[i].hasBase /\ saves[i].base = disk) =>
        /\ loadSchedulerStore(disk').threw = ""
        /\ C20_Observable(loadSchedulerStore(disk').store)
             = C20_Observable(loadSchedulerStore(disk).store)

\* C20: when the save of a store s replaces the canonical file, load()
\* returns a store observably equal to s; and when s is what load() had
\* returned for the file being replaced, load() returns for the new file
\* what it returned for the old one.
C20_RoundTrip ==
    [][\A i \in 1..Len(saves) : C20_LoadAfterSave(i) /\ C20_SaveAfterLoad(i)]_vars

\* save(load()) has replaced a canonical file that was not written by
\* saveSchedulerStore, the only save made, with a different text.
C20_Witness ==
    /\ saveCalls = 1
    /\ \E i \in 1..Len(saves) :
          /\ saves[i].pc = "copy"
          /\ saves[i].hasBase
          /\ saves[i].base = TextFile(ForeignStoreText)
          /\ disk = TextFile(saves[i].json)
          /\ disk # saves[i].base

(***************************************************************************)
(* C19.  The step in which start() gets the outcome of its load.           *)
(***************************************************************************)
C19_StartStep == startPc = "init" /\ startPc' # "init"

C19_Inert ==
    /\ ~started
    /\ timer = None
    /\ jobs = <<>>
    /\ execs = <<>>
    /\ \A id \in JobIds : fired[id] = 0

C19_LoadRule ==
    C19_StartStep =>
        IF ~disk.exists
        THEN startPc' = "persist" /\ started' /\ jobs' = <<>>
        ELSE IF ~disk.readable \/ ~JSONvalid(disk.text)
        THEN startPc' = "failed" /\ C19_Inert'
        ELSE startPc' = "persist" /\ started'

\* C19: with no file at the canonical path start() goes on with the empty
\* default store; with a file that cannot be read or parsed the failure
\* leaves load() and start(), and from then on the engine is not started,
\* has no timer armed and has executed no job.
C19_LoadFailurePropagates ==
    /\ [](startPc = "failed" => C19_Inert)
    /\ [][C19_LoadRule]_vars

\* start() has failed on an unreadable file and time has passed since.
C19_Witness ==
    /\ startPc = "failed"
    /\ ~disk.readable
    /\ now > epoch

(***************************************************************************)
(* C21.  computeNextRun on Every(intervalMs, anchor), intervalMs being the *)
(* interval raised to at least 1 and anchor the anchor raised to at least  *)
(* 0, as the calculator reads them: for now >= anchor the value v is       *)
(* anchor + k*intervalMs for an integer k >= 1, v >= now, and v = now only *)
(* when now is itself such a boundary; for now < anchor the value is       *)
(* anchor.                                                                 *)
(***************************************************************************)
C21_EveryCall ==
    /\ calc.pc = "out"
    /\ calc.fn = "computeNextRunAtMs"
    /\ calc.schedule.kind = "every"

C21_Distance(a, b) == IF a >= b THEN a - b ELSE b - a

C21_OnBoundary(intervalMs, anchor, v) ==
    \E k \in 1..Max(1, C21_Distance(v, anchor)) : v = anchor + k * intervalMs

C21_Rule(intervalMs, anchor, nowMs, v) ==
    IF nowMs >= anchor
    THEN /\ C21_OnBoundary(intervalMs, anchor, v)
         /\ v >= nowMs
         /\ v = nowMs => C21_OnBoundary(intervalMs, anchor, nowMs)
    ELSE v = anchor

C21_EveryNext ==
    C21_EveryCall =>
        C21_Rule(Max(1, calc.schedule.everyMs),
                 Max(0, IF calc.schedule.anchorMs = None THEN calc.nowMs
                        ELSE calc.schedule.anchorMs),
                 calc.nowMs, calc.result)

\* The rule read on the interval and the anchor as the schedule holds them.
C21_EveryNextAsHeld ==
    (C21_EveryCall /\ calc.schedule.anchorMs # None) =>
        C21_Rule(calc.schedule.everyMs, calc.schedule.anchorMs,
                 calc.nowMs, calc.result)

C21_Witness ==
    /\ C21_EveryCall
    /\ calc.schedule.everyMs > 1
    /\ calc.schedule.anchorMs # None
    /\ calc.schedule.anchorMs >= 0
    /\ calc.nowMs > calc.schedule.anchorMs
    /\ calc.result = calc.nowMs

(***************************************************************************)
(* C22.  computeNextRun on a Cron schedule never returns an instant at or  *)
(* before now: when the evaluator answers now itself or an earlier         *)
(* instant, the value is the evaluator's answer from the start of the next *)
(* whole second if that is strictly after now, and "never" otherwise.      *)
(***************************************************************************)
C22_CronCall ==
    /\ calc.pc = "out"
    /\ calc.fn = "computeNextRunAtMs"
    /\ calc.schedule.kind = "cron"

C22_Instant(answer) == answer # None /\ answer # NotFinite

C22_SameInstantGuard ==
    C22_CronCall =>
        /\ calc.result = None \/ calc.result > calc.nowMs
        /\ (/\ calc.schedule.expr # ""
            /\ C22_Instant(calc.first)
            /\ calc.first <= calc.nowMs)
           => calc.result = IF C22_Instant(calc.retry) /\ calc.retry > calc.nowMs
                            THEN calc.retry ELSE None

C22_Witness ==
    /\ C22_CronCall
    /\ calc.schedule.expr # ""
    /\ calc.first = calc.nowMs
    /\ calc.retry > calc.nowMs
    /\ calc.result = calc.retry

(***************************************************************************)
(* C23.  The backoff delay depends on consecutiveErrors alone, never       *)
(* decreases as the count grows, is 30 s, 1 min, 5 min, 15 min, 60 min for *)
(* the counts 1 to 5, 60 min for every count above 5 and 30 s for every    *)
(* count below 1.                                                          *)
(***************************************************************************)
C23_BackoffCall == calc.pc = "out" /\ calc.fn = "errorBackoffMs"

C23_Ladder(count) ==
    IF count <= 1 THEN 30 * 1000
    ELSE IF count = 2 THEN 60 * 1000
    ELSE IF count = 3 THEN 5 * 60 * 1000
    ELSE IF count = 4 THEN 15 * 60 * 1000
    ELSE 60 * 60 * 1000

C23_BackoffLadder ==
    C23_BackoffCall =>
        /\ calc.result = C23_Ladder(calc.count)
        /\ \A lower \in CalcCounts :
              lower <= calc.count => errorBackoffMs(lower) <= calc.result

C23_Witness ==
    /\ C23_BackoffCall
    /\ calc.count > Len(ERROR_BACKOFF_MS)
    /\ calc.result = 60 * 60 * 1000

(***************************************************************************)
(* C24.  remove(owner, idPrefix) removes exactly the first job, in         *)
(* collection order, whose owner is owner and whose id begins with         *)
(* idPrefix, and leaves every other job as it was, jobs of other owners    *)
(* with a matching id included; when no job matches it returns false and   *)
(* changes neither the collection nor the persisted store.                 *)
(***************************************************************************)
C24_IdBeginsWith(job, idPrefix) ==
    /\ Len(idPrefix) <= Len(Uuid(job.id))
    /\ \A k \in 1..Len(idPrefix) : Uuid(job.id)[k] = idPrefix[k]

C24_Matches(chatId, idPrefix) ==
    {i \in 1..Len(jobs) :
        jobs[i].chatId = chatId /\ C24_IdBeginsWith(jobs[i], idPrefix)}

C24_Effect(chatId, idPrefix) ==
    LET matches == C24_Matches(chatId, idPrefix)
    IN  IF matches = {}
        THEN /\ jobs' = jobs
             /\ disk' = disk
             /\ crud' = crud
             /\ refused' = refused + 1
        ELSE LET first == CHOOSE i \in matches : \A k \in matches : i <= k
             IN  /\ Len(jobs') = Len(jobs) - 1
                 /\ \A k \in 1..Len(jobs) :
                       /\ k < first => jobs'[k] = jobs[k]
                       /\ k > first => jobs'[k - 1] = jobs[k]
                 /\ refused' = refused

C24_RemoveFirstMatch ==
    [][\A chatId \in Chats, idPrefix \in IdPrefixes :
          removeJob(chatId, idPrefix) => C24_Effect(chatId, idPrefix)]_vars

\* After a removal of the second job and its save, and a call that
\* returned false: the first job is still in the collection and in the file.
C24_Witness ==
    /\ nextId = 2
    /\ Len(jobs) = 1
    /\ jobs[1].id = 1
    /\ jobs[1].chatId = OwnerChat
    /\ crud = 0
    /\ storedJobs = jobs
    /\ refused > 0

(***************************************************************************)
(* C25.  forceRun(owner, idPrefix) on a matching job starts one execution  *)
(* of that job at once, whatever its nextRunAtMs, and returns true without *)
(* waiting for the execution to finish; when no job matches it returns     *)
(* false and starts no execution.                                          *)
(***************************************************************************)
C25_Effect(chatId, idPrefix) ==
    LET matches == C24_Matches(chatId, idPrefix)
    IN  IF matches = {}
        THEN /\ execs' = execs
             /\ jobs' = jobs
             /\ refused' = refused + 1
        ELSE LET first == CHOOSE i \in matches : \A k \in matches : i <= k
             IN  /\ Len(execs') = Len(execs) + 1
                 /\ \A k \in 1..Len(execs) : execs'[k] = execs[k]
                 /\ execs'[Len(execs')].job = jobs[first].id
                 /\ execs'[Len(execs')].startedAt = now
                 /\ execs'[Len(execs')].phase = "run"
                 /\ jobs'[first].runningAtMs = now
                 /\ refused' = refused
                 /\ crud' = crud

C25_ForceRunAtOnce ==
    [][\A chatId \in Chats, idPrefix \in IdPrefixes :
          forceRunJob(chatId, idPrefix) => C25_Effect(chatId, idPrefix)]_vars

\* A forced execution in flight of a job that is not due and belongs to
\* the second chat, the first chat's job untouched.
C25_Witness ==
    /\ Len(jobs) = 2
    /\ jobs[1].chatId # jobs[2].chatId
    /\ jobs[1].runningAtMs = None
    /\ jobs[2].runningAtMs = now
    /\ jobs[2].nextRunAtMs > now
    /\ \E k \in 1..Len(execs) :
          /\ execs[k].origin = "force"
          /\ execs[k].job = jobs[2].id
          /\ execs[k].phase = "run"

(***************************************************************************)
(* C26.  For each chat the tasks given to enqueue run one at a time in     *)
(* submission order: a task starts only after every earlier task of the    *)
(* chat has settled, a task that rejects does not keep later tasks of the  *)
(* chat from running, and the promise returned to each caller settles with *)
(* that caller's own task result.                                          *)
(***************************************************************************)
C26_Called(k) == tasks[k].phase # "queued"
C26_Settled(k) == tasks[k].phase \in {"settled", "done"}
C26_Earlier(k) == {e \in 1..(k - 1) : tasks[e].chatId = tasks[k].chatId}

C26_InOrder ==
    \A k \in 1..Len(tasks) :
        C26_Called(k) => \A e \in C26_Earlier(k) : C26_Settled(e)

C26_OneAtATime ==
    \A k, m \in 1..Len(tasks) :
        (/\ tasks[k].chatId = tasks[m].chatId
         /\ tasks[k].phase = "running"
         /\ tasks[m].phase = "running") => k = m

\* Once every earlier task of the chat is through, fulfilled or rejected,
\* the task can be called.
C26_NotHeldBack ==
    \A k \in 1..Len(tasks) :
        (/\ tasks[k].phase = "queued"
         /\ \A e \in C26_Earlier(k) : tasks[e].phase = "done")
        => ENABLED taskStarts(k)

C26_OwnResult ==
    \A k \in 1..Len(tasks) :
        /\ ~C26_Settled(k) => returned(tasks[k]).state = "pending"
        /\ C26_Settled(k) => /\ returned(tasks[k]).state \in {"fulfilled", "rejected"}
                             /\ returned(tasks[k]).value = k

C26_PerChatQueue ==
    C26_InOrder /\ C26_OneAtATime /\ C26_NotHeldBack /\ C26_OwnResult

\* Three calls for one chat: the first rejected, the second fulfilled, the
\* third running, and each of the first two callers holds its own result.
C26_Witness ==
    /\ Len(tasks) = 3
    /\ \A k \in 1..3 : tasks[k].chatId = tasks[1].chatId
    /\ returned(tasks[1]) = Rejected(1)
    /\ returned(tasks[2]) = Fulfilled(2)
    /\ tasks[3].phase = "running"

(***************************************************************************)
(* C27.  A timer callback that fires while a dispatch tick is in progress  *)
(* executes no job, changes no job state and does not persist: it only     *)
(* re-arms the timer for the 60 s ceiling delay and returns.               *)
(***************************************************************************)
C27_BusyCallback == running /\ onTimer

C27_BusyRearmsOnly ==
    [][C27_BusyCallback =>
          /\ timer' = now + 60000
          /\ UNCHANGED <<jobs, execs, disk, running, tickPc, dueJobs, fired,
                         now, started, startPc, missed, crud, nextId>>]_vars

\* During a tick with its executor call in flight the timer stands a full
\* ceiling delay ahead although an enabled job that is not running is due.
C27_Witness ==
    /\ running
    /\ tickPc = "exec"
    /\ timer = now + 60000
    /\ \E i \in 1..Len(jobs) :
          /\ jobs[i].enabled
          /\ jobs[i].runningAtMs = None
          /\ jobs[i].nextRunAtMs # None
          /\ jobs[i].nextRunAtMs <= now

(***************************************************************************)
(* C28.  A dispatch tick that has passed the re-entrancy check leaves the  *)
(* tick: with an empty due set in the same step, otherwise eventually,     *)
(* whether its jobs completed, an execution raised (recorded as status     *)
(* "error") or a persist of the tick rejected.  On leaving, the            *)
(* re-entrancy flag is false and armTimer has run on the state left        *)
(* behind.                                                                 *)
(***************************************************************************)
C28_Entered == ~running /\ onTimer

C28_Leaves ==
    \/ C28_Entered /\ findDueJobs(jobs, now) = <<>>
    \/ running /\ ~running'

C28_Left ==
    /\ ~running'
    /\ tickPc' = "idle"
    /\ timer' = armTimer(jobs', started', now')

C28_TickLeavesRearmed ==
    /\ running ~> ~running
    /\ [][C28_Entered => (running' <=> findDueJobs(jobs, now) # <<>>)]_vars
    /\ [][C28_Leaves => C28_Left]_vars

\* A tick has been left through a rejected persist: nothing is in flight,
\* the flag is false, the timer is as armTimer leaves it, and a job still
\* carries the running marker of the tick, which the file does not hold.
C28_Witness ==
    /\ ~running
    /\ tickPc = "idle"
    /\ execs = <<>>
    /\ startPc = "done"
    /\ timer = armTimer(jobs, started, now)
    /\ \E i \in 1..Len(jobs) :
          /\ jobs[i].runningAtMs # None
          /\ LET stored == storedJobs
             IN  \E k \in 1..Len(stored) :
                    /\ stored[k].id = jobs[i].id
                    /\ stored[k].runningAtMs = None

(***************************************************************************)
(* C29.  Each call of armTimer on a started engine arms nothing when no    *)
(* enabled job has a nextRunAtMs, and otherwise arms a one-shot callback   *)
(* with delay min(max(0, earliest - now), 60000), earliest being the       *)
(* minimum nextRunAtMs over the enabled jobs; on an engine that has been   *)
(* stopped it arms nothing.  Every delay armed, that of the busy branch    *)
(* of the callback included, is within [0, 60000] ms.                      *)
(***************************************************************************)
C29_Arming ==
    \/ startPc # "done" /\ startPc' = "done"
    \/ crudPersisted
    \/ ~running /\ onTimer /\ ~running'
    \/ running /\ ~running'

C29_Candidates(js) ==
    {i \in 1..Len(js) : js[i].enabled /\ js[i].nextRunAtMs # None}

C29_Rule ==
    IF C29_Candidates(jobs') = {}
    THEN timer' = None
    ELSE \E i \in C29_Candidates(jobs') :
            /\ \A k \in C29_Candidates(jobs') :
                  jobs'[i].nextRunAtMs <= jobs'[k].nextRunAtMs
            /\ timer' # None
            /\ timer' - now' =
                  Min(Max(0, jobs'[i].nextRunAtMs - now'), 60000)

C29_DelayBounded ==
    [][timer' # timer /\ timer' # None => timer' - now' \in 0..60000]_vars

C29_ArmsEarliestClamped ==
    /\ [][C29_Arming => IF started' THEN C29_Rule ELSE timer' = None]_vars
    /\ C29_DelayBounded

\* The statement without the condition on the engine being started.
C29_ArmsEarliestClampedAsHeld ==
    /\ [][C29_Arming => C29_Rule]_vars
    /\ C29_DelayBounded

\* On a started engine the timer stands at the present instant although the
\* earliest next run of an enabled job is in the past: the delay was
\* floored at zero.
C29_Witness ==
    /\ started
    /\ startPc = "done"
    /\ ~running
    /\ timer = now
    /\ C29_Candidates(jobs) # {}
    /\ \E i \in C29_Candidates(jobs) : jobs[i].nextRunAtMs < now

(***************************************************************************)
(* C30.  Within one dispatch tick the jobs of the due set are executed in  *)
(* collection (insertion) order, each starting only after the result of    *)
(* the one before it has been applied and persisted.                       *)
(***************************************************************************)
C30_Position(js, id) == CHOOSE i \in 1..Len(js) : js[i].id = id

C30_TickCalls(es, phase) ==
    {k \in 1..Len(es) : es[k].origin = "tick" /\ es[k].phase = phase}

\* The due set a tick begins with lists jobs of the collection, each once,
\* in the order of the collection.
C30_DueSetOrdered ==
    (tickPc = "idle" /\ tickPc' = "persist") =>
        /\ \A a \in 1..Len(dueJobs') : HasJob(jobs, dueJobs'[a])
        /\ \A a, b \in 1..Len(dueJobs') :
              a < b => C30_Position(jobs, dueJobs'[a]) < C30_Position(jobs, dueJobs'[b])

\* An execution of the tick begins: it is that of the first job of the due
\* set after the marking was saved, or that of the next job of the due set
\* in the step that completes the save of the previous job's result.
C30_StartsAfterPrevious ==
    (C30_TickCalls(execs', "run") # {} /\ C30_TickCalls(execs, "run") = {}) =>
        LET started_ == execs'[CHOOSE k \in C30_TickCalls(execs', "run") : TRUE]
        IN  /\ Cardinality(C30_TickCalls(execs', "run")) = 1
            /\ C30_TickCalls(execs', "persist") = {}
            /\ disk' = saveSchedulerStore(StoreOf(jobs))
            /\ IF tickPc = "persist"
               THEN /\ C30_TickCalls(execs, "persist") = {}
                    /\ started_.job = dueJobs[1]
                    /\ dueJobs' = dueJobs
               ELSE /\ tickPc = "exec"
                    /\ \E k \in C30_TickCalls(execs, "persist") :
                          /\ execs[k].job = dueJobs[1]
                          /\ HasJob(jobs, dueJobs[1])
                                => /\ JobOf(jobs, dueJobs[1]).runningAtMs = None
                                   /\ JobOf(jobs, dueJobs[1]).lastStatus = execs[k].status
                    /\ started_.job = dueJobs[2]
                    /\ dueJobs' = Tail(dueJobs)

\* No two executions of a tick are in progress together.
C30_OneCallAtATime ==
    Cardinality(C30_TickCalls(execs', "run") \cup C30_TickCalls(execs', "persist")) <= 1

C30_SequentialInOrder ==
    [][C30_DueSetOrdered /\ C30_StartsAfterPrevious /\ C30_OneCallAtATime]_vars

\* The second job of a two-job due set is executing; the first job's result
\* is on the job and in the store file.
C30_Witness ==
    /\ Len(jobs) = 2
    /\ tickPc = "exec"
    /\ dueJobs = <<jobs[2].id>>
    /\ \E k \in C30_TickCalls(execs, "run") : execs[k].job = jobs[2].id
    /\ jobs[1].lastStatus # "none"
    /\ jobs[1].runningAtMs = None
    /\ LET stored == storedJobs
       IN  Len(stored) = 2 /\ stored[1] = jobs[1]

(***************************************************************************)
(* C31.  An Every job whose last run ended with ok has its nextRunAtMs on  *)
(* the grid anchor + k * interval, k >= 1, whenever its runs started, how  *)
(* long they lasted and whether failed, backed-off runs came before.       *)
(***************************************************************************)
C31_RanOk(job) ==
    /\ job.schedule.kind = "every"
    /\ job.enabled
    /\ job.runningAtMs = None
    /\ job.lastStatus = "ok"

C31_OnGrid(job) ==
    /\ job.nextRunAtMs # None
    /\ job.nextRunAtMs >= job.schedule.anchorMs + job.schedule.everyMs
    /\ (job.nextRunAtMs - job.schedule.anchorMs) % job.schedule.everyMs = 0

C31_NoDrift ==
    \A i \in 1..Len(jobs) : C31_RanOk(jobs[i]) => C31_OnGrid(jobs[i])

\* A run that started in the middle of an interval, where only the backoff
\* after a failed run puts it, took time and ended with ok, and the next
\* run is on the grid.
C31_Witness ==
    \E i \in 1..Len(jobs) :
       /\ C31_RanOk(jobs[i])
       /\ LET offset == (jobs[i].lastRunAtMs - jobs[i].schedule.anchorMs)
                           % jobs[i].schedule.everyMs
          IN  /\ offset > jobs[i].schedule.everyMs \div 4
              /\ offset < 3 * (jobs[i].schedule.everyMs \div 4)
       /\ jobs[i].lastDurationMs > 0
       /\ jobs[i].schedule.anchorMs > 0
       /\ C31_OnGrid(jobs[i])

(***************************************************************************)
(* C32.  Whenever no engine operation is in flight (no tick, forced run,   *)
(* startup or CRUD call pending, and with them no persist), the jobs read  *)
(* back from the store file are the jobs in memory.                        *)
(***************************************************************************)
C32_NothingInFlight ==
    /\ startPc = "done"
    /\ ~running
    /\ tickPc = "idle"
    /\ crud = 0
    /\ execs = <<>>
    /\ saves = <<>>

C32_FileIsMemoryWhenIdle ==
    C32_NothingInFlight => loadSchedulerStore(disk).store.jobs = jobs

(***************************************************************************)
(* C33.  Once remove(owner, idPrefix) has returned true for a job, no step *)
(* of the engine starts an execution of that job.                          *)
(***************************************************************************)
C33_Removed(id) ==
    /\ id <= nextId
    /\ ~HasJob(jobs, id)
    /\ id \notin consumed
    /\ crud = 0

C33_Executions(es, id) == Cardinality({i \in 1..Len(es) : es[i].job = id})

C33_Starts(id) == C33_Executions(execs', id) > C33_Executions(execs, id)

C33_NoRunAfterRemove ==
    [][\A id \in JobIds : C33_Removed(id) => ~C33_Starts(id)]_vars

(***************************************************************************)
(* C34.  After a terminal run of an enabled recurring job (Every or Cron,  *)
(* ok or error) the job's nextRunAtMs is defined and strictly greater than *)
(* the instant the run ended.                                              *)
(***************************************************************************)
C34_HasRun(job) ==
    /\ job.schedule.kind \in {"every", "cron"}
    /\ job.enabled
    /\ job.runningAtMs = None
    /\ job.lastStatus \in {"ok", "error"}

C34_EndedAt(job) == job.lastRunAtMs + job.lastDurationMs

C34_NextAfterEnd ==
    \A i \in 1..Len(jobs) :
       C34_HasRun(jobs[i]) =>
          /\ jobs[i].nextRunAtMs # None
          /\ jobs[i].nextRunAtMs > C34_EndedAt(jobs[i])

(***************************************************************************)
(* C35.  When a dispatch tick has ended, for whatever reason, and no       *)
(* execution is in flight, no job in memory carries the running marker.    *)
(***************************************************************************)
C35_TickOver ==
    /\ startPc = "done"
    /\ ~running
    /\ tickPc = "idle"
    /\ execs = <<>>

C35_NoMarkerLeftBehind ==
    C35_TickOver => \A i \in 1..Len(jobs) : jobs[i].runningAtMs = None

(***************************************************************************)
(* C36.  A tick that dispatches nothing re-arms the timer with a strictly  *)
(* positive delay or not at all: whenever the timer callback is due to run *)
(* outside a tick and no job is due, the timer armTimer sets is later than *)
(* the present instant.                                                    *)
(***************************************************************************)
C36_EmptyTickAhead ==
    /\ timer # None
    /\ now >= timer
    /\ ~running
    /\ findDueJobs(jobs, now) = <<>>

C36_EmptyTickArmsLater ==
    C36_EmptyTickAhead =>
       \/ armTimer(jobs, started, now) = None
       \/ armTimer(jobs, started, now) > now

(***************************************************************************)
(* C37.  Whenever the engine is started, no startup, tick or CRUD call is  *)
(* in progress and some enabled job has a nextRunAtMs, a timer is armed.   *)
(***************************************************************************)
C37_Settled ==
    /\ started
    /\ startPc = "done"
    /\ ~running
    /\ tickPc = "idle"
    /\ crud = 0

C37_TimerArmed ==
    (/\ C37_Settled
     /\ \E i \in 1..Len(jobs) :
           jobs[i].enabled /\ jobs[i].nextRunAtMs # None)
    => timer # None

(***************************************************************************)
(* C38.  At any time at most one timeout of the engine is pending, and it  *)
(* is the one this.timer refers to: every arming, by start, a CRUD call,   *)
(* the end of a tick or the busy branch, first cancels the timeout armed   *)
(* before.                                                                 *)
(***************************************************************************)
C38_Pending == {k \in 1..Len(timeouts) : timeouts[k].state = "pending"}

C38_OnePendingTimer ==
    /\ Cardinality(C38_Pending) <= 1
    /\ \A k \in C38_Pending : handle = k

\* One timeout is pending after an earlier one was cancelled before it
\* fired and another fired during a tick and was replaced by the busy
\* branch.
C38_Witness ==
    /\ running
    /\ Cardinality(C38_Pending) = 1
    /\ \E k \in 1..Len(timeouts) : timeouts[k].state = "cleared"
    /\ \E k \in 1..Len(timeouts) :
          /\ timeouts[k].state = "fired"
          /\ k + 1 \in C38_Pending
          /\ timeouts[k + 1].at > timeouts[k].at + MAX_TIMER_DELAY_MS - 1
          /\ k > 1 /\ timeouts[k - 1].state = "fired"

(***************************************************************************)
(* C39.  Once stop() has returned and until start() is called again, no    *)
(* timeout of the engine is pending, no step arms one, and no execution of *)
(* a job is started, also when stop() was called during a tick that has    *)
(* several due jobs.                                                       *)
(***************************************************************************)
C39_Stopped == startPc = "done" /\ ~started

C39_InRun(es) == Cardinality({i \in 1..Len(es) : es[i].phase = "run"})

C39_StartsRun == C39_InRun(execs') > C39_InRun(execs)

\* The part about the timer alone.
C39_NoTimerAfterStop == C39_Stopped => timer = None

C39_QuietAfterStop ==
    [][C39_Stopped => (timer' = None /\ ~C39_StartsRun)]_vars

(***************************************************************************)
(* C40.  Once newSession of a chat has returned, the stored session of the *)
(* chat has the session id newSession made and messageCount 0, for as long *)
(* as no message of the chat enqueued is taken up, also when a sendMessage *)
(* of the chat was being processed when newSession was called and ends     *)
(* after it.                                                               *)
(***************************************************************************)
C40_Completed(k) ==
    /\ calls[k].kind = "new"
    /\ calls[k].pc = "done"

\* Every other call of the chat had returned or was being processed when
\* newSession was called, or is a message still waiting in the queue.
C40_NoLaterMessage(k) ==
    \A j \in 1..Len(calls) :
        (j # k /\ calls[j].chatId = calls[k].chatId) =>
            \/ j \in calls[k].finished
            \/ j \in calls[k].inflight
            \/ calls[j].kind = "send" /\ calls[j].pc = "queued"

\* No call of another chat has been made, so that the file is written for
\* this chat alone.
C40_ChatAlone(k) == \A j \in 1..Len(calls) : calls[j].chatId = calls[k].chatId

C40_NewSessionKept ==
    \A k \in 1..Len(calls) :
        (C40_Completed(k) /\ C40_NoLaterMessage(k) /\ C40_ChatAlone(k)) =>
            /\ sessions[calls[k].chatId].sessionId = calls[k].session.sessionId
            /\ sessions[calls[k].chatId].messageCount = 0

====
